---- MODULE Spec2Model ----
(***************************************************************************)
(* TrackMyFix: the real-time update fan-out.                               *)
(*                                                                         *)
(* The source tree holds two revisions of lib/job-events.  The job stream  *)
(* route subscribes with onJobUpdated to the per-process EventEmitter of   *)
(* the first revision; the owner stream route polls getOwnerUpdateSequence *)
(* of the second revision, whose emitJobUpdated bumps the shared counters. *)
(* The model links each stream route to the notifier it imports: a         *)
(* successful technician PATCH emits to the listeners of the handling      *)
(* process and starts the two fire-and-forget counter increments.          *)
(***************************************************************************)
EXTENDS Integers, Sequences, FiniteSets, TLC

\* ---------------------------------------------------------------- bounds
\* technician PATCH requests handled in one behaviour
MaxPatches == 2
\* tasks of the largest job
MaxTasks == 40
\* note entries of a job before the first request
MaxNotes == 3

\* ------------------------------------------------------------ the universe
Procs == {"pA", "pB"}
\* the connections: one viewer
SessIds == {1}
JobIds == {"j1", "j2"}
OwnerIds == {"o1", "o2"}
\* ids a request may name: the existing ones and one that matches nothing
JobIdInputs == JobIds \cup {"jx"}
OwnerIdInputs == OwnerIds \cup {"ox"}
RoleInputs == {"customer", "technician", "manager", ""}
\* "undefined" stands for a field the request body lacks
TaskIdInputs == {"a1", "zz", "undefined"}
CompletedInputs == {"true", "false", "undefined"}
NotesInputs == {"  ", " n1 ", "undefined"}
\* the primary e-mail address of the signed-in user as the identity provider
\* holds it; "" is a user without an address, "anonymous" is no user at all
ClerkInputs == {"anonymous", "", "ann@x.io", "Ann@X.io", "bob@x.io"}

technicianTokenOf(j) == "T-" \o j
customerTokenOf(j) == "C-" \o j
\* "" is a request without a token
TokenInputs == {"", technicianTokenOf("j1"), customerTokenOf("j1"),
                technicianTokenOf("j2")}

\* the job stream requests made: the authorized ones, and one for each way
\* of not being authorized (unknown role, no role, no token, no such job, the
\* token of the other role, the token of another job)
JobRequestInputs ==
  {<<"j1", "customer", customerTokenOf("j1")>>,
   <<"j1", "technician", technicianTokenOf("j1")>>,
   <<"j2", "technician", technicianTokenOf("j2")>>,
   <<"j1", "manager", technicianTokenOf("j1")>>,
   <<"j1", "", customerTokenOf("j1")>>,
   <<"j1", "customer", "">>,
   <<"jx", "customer", customerTokenOf("j1")>>,
   <<"j1", "customer", technicianTokenOf("j1")>>,
   <<"j1", "technician", customerTokenOf("j1")>>,
   <<"j1", "technician", technicianTokenOf("j2")>>}

\* the owner stream requests made: owner id and signed-in user
OwnerRequestInputs ==
  {<<"o1", "ann@x.io">>, <<"o1", "Ann@X.io">>, <<"o2", "bob@x.io">>,
   <<"o1", "anonymous">>, <<"o1", "">>, <<"ox", "ann@x.io">>,
   <<"o1", "bob@x.io">>, <<"o2", "ann@x.io">>}

\* String.prototype.trim on the note bodies a request may carry
Trim(str) ==
  CASE str = "  " -> ""
    [] str = " n1 " -> "n1"
    [] OTHER -> str

\* String.prototype.toLowerCase on the addresses the model uses
ToLower(str) ==
  CASE str = "Ann@X.io" -> "ann@x.io"
    [] OTHER -> str

VARIABLES
  owners,       \* store.owners: owner id -> Owner
  jobs,         \* store.jobs: job id -> Job
  now,          \* the clock nowIso() reads
  redis,        \* the counter store: key -> integer, for the keys that exist
  redisUp,      \* whether the counter store answers requests
  upstashRedis, \* per process: whether the client is configured
  incrs,        \* INCR requests in flight: key -> how many
  emitter,      \* per process: the listeners of job.updated.<jobId>
  sessions,     \* the stream sessions, by connection
  resp,         \* the response the last request got (a technician PATCH
                \* or a session GET), and how many PATCH requests were
                \* handled
  mutated,      \* history: successful mutations per job
  notified,     \* history: emitJobUpdated calls per job
  settled,      \* history: INCR requests completed per key
  templates,    \* store.templates: template id -> Template
  writeQueue,   \* per process: the withWriteLock operations not yet settled
  results,      \* what the callers of withWriteLock got back, in order
  page          \* the manager's active jobs page in a browser

vars == <<owners, jobs, now, redis, redisUp, upstashRedis, incrs,
          emitter, sessions, resp, mutated, notified, settled,
          templates, writeQueue, results, page>>

\* ------------------------------------------------------------- lib/store
InitialTasks(j) ==
  CASE j = "j1" -> <<[id |-> "a1", completed |-> FALSE],
                     [id |-> "a2", completed |-> FALSE]>>
    [] OTHER    -> <<[id |-> "b1", completed |-> FALSE]>>

InitialOwnerOf(j) == "o1"

RECURSIVE InsertDesc(_, _)
\* where Array.prototype.sort (stable) puts entry e among the already sorted s
InsertDesc(s, e) ==
  IF s = <<>> THEN <<e>>
  ELSE IF e.createdAt > Head(s).createdAt THEN <<e>> \o s
       ELSE <<Head(s)>> \o InsertDesc(Tail(s), e)

RECURSIVE InsertDesc_TiesFirst(_, _)
\* InsertDesc putting e before the entries of its createdAt
InsertDesc_TiesFirst(s, e) ==
  IF s = <<>> THEN <<e>>
  ELSE IF e.createdAt >= Head(s).createdAt THEN <<e>> \o s
       ELSE <<Head(s)>> \o InsertDesc_TiesFirst(Tail(s), e)

RECURSIVE sortNoteEntriesDesc_TiesReversed(_)
\* sortNoteEntriesDesc by a sort that is not stable
sortNoteEntriesDesc_TiesReversed(noteEntries) ==
  IF noteEntries = <<>> THEN <<>>
  ELSE LET n == Len(noteEntries)
       IN InsertDesc_TiesFirst(
            sortNoteEntriesDesc_TiesReversed(SubSeq(noteEntries, 1, n - 1)),
            noteEntries[n])

RECURSIVE sortNoteEntriesDesc(_)
sortNoteEntriesDesc(noteEntries) ==
  IF noteEntries = <<>> THEN <<>>
  ELSE LET n == Len(noteEntries)
       IN InsertDesc(sortNoteEntriesDesc(SubSeq(noteEntries, 1, n - 1)),
                     noteEntries[n])

CompletedCount(tasks) == Cardinality({i \in DOMAIN tasks : tasks[i].completed})

\* -------------------------------------------- IEEE 754 double arithmetic
\* JavaScript numbers are binary64: 53 significant bits, every operation
\* rounded to the nearest, ties to the even significand.  A positive double
\* is kept here as [limbs, exp]: four limbs of 18 bits, the most significant
\* first, making an integer n of at most 53 significant bits, for the value
\* n * 2^(exp - 54).
LimbBits == 18
Limb == 2^LimbBits
MantissaBits == 53

\* the limbs brought back below 2^18 each, the carries going up
Carried(l) ==
  LET k4 == l[4] \div Limb
      k3 == (l[3] + k4) \div Limb
      k2 == (l[2] + k3) \div Limb
  IN <<l[1] + k2, (l[2] + k3) % Limb, (l[3] + k4) % Limb, l[4] % Limb>>

\* the number of bits of n
BitLength(n) == CHOOSE k \in 0..30 : 2^k > n /\ (k = 0 \/ 2^(k - 1) <= n)

\* the zero bits the binary fraction c / t starts with, for 0 < c < t
LeadingZeros(c, t) == BitLength((t - 1) \div c) - 1

\* c / t in double arithmetic, for 0 < c < t: 54 bits of the quotient from
\* its first 1 on, the last of them and the remainder deciding the rounding
DoubleDivide(c, t) ==
  LET z == LeadingZeros(c, t)
      n == c * 2^z
      q1 == (n * Limb) \div t
      r1 == (n * Limb) % t
      q2 == (r1 * Limb) \div t
      r2 == (r1 * Limb) % t
      q3 == (r2 * Limb) \div t
      r3 == (r2 * Limb) % t
      guard == q3 % 2
      odd == (q3 \div 2) % 2 = 1
      up == guard = 1 /\ (r3 # 0 \/ odd)
  IN [limbs |-> Carried(<<0, q1, q2, IF up THEN q3 + 1 ELSE q3 - guard>>),
      exp |-> 0 - z]

\* x * 100 in double arithmetic: the exact product, rounded to 53 bits
DoubleTimes100(x) ==
  LET p == Carried([i \in 1..4 |-> 100 * x.limbs[i]])
      d == 3 * LimbBits + BitLength(p[1]) - MantissaBits
      low == p[4] % 2^d
      half == 2^(d - 1)
      odd == (p[4] \div 2^d) % 2 = 1
      up == low > half \/ (low = half /\ odd)
  IN [limbs |-> Carried(<<p[1], p[2], p[3],
                          p[4] - low + (IF up THEN 2^d ELSE 0)>>),
      exp |-> x.exp]

\* Math.round of a positive double below 2^7: the nearest integer, the half
\* going up
MathRound(x) ==
  LET top == x.limbs[1] * Limb + x.limbs[2]
      shift == LimbBits - x.exp
  IN (top \div 2^shift) + ((top \div 2^(shift - 1)) % 2)

\* Math.round((completedTasks / totalTasks) * 100) for 0 <= c <= t, t > 0;
\* 0 / t is exactly 0 and t / t exactly 1
RoundPercent(c, t) ==
  IF c = 0 THEN 0
  ELSE IF c = t THEN 100
  ELSE MathRound(DoubleTimes100(DoubleDivide(c, t)))

\* toJobSession spreading the job into the snapshot: the tokens go with it
toJobSession_WithTokens(job) ==
  LET totalTasks == Len(job.tasks)
      completedTasks == CompletedCount(job.tasks)
  IN [id |-> job.id,
      businessName |-> job.businessName,
      businessPhone |-> job.businessPhone,
      technicianToken |-> job.technicianToken,
      customerToken |-> job.customerToken,
      noteEntries |-> sortNoteEntriesDesc(job.noteEntries),
      tasks |-> job.tasks,
      updatedAt |-> job.updatedAt,
      progressPercent |-> IF totalTasks = 0 THEN 0
                          ELSE RoundPercent(completedTasks, totalTasks),
      completedTasks |-> completedTasks,
      totalTasks |-> totalTasks,
      allCompleted |-> totalTasks > 0 /\ completedTasks = totalTasks]

toJobSession(job) ==
  LET totalTasks == Len(job.tasks)
      completedTasks == CompletedCount(job.tasks)
  IN [id |-> job.id,
      businessName |-> job.businessName,
      businessPhone |-> job.businessPhone,
      noteEntries |-> sortNoteEntriesDesc(job.noteEntries),
      tasks |-> job.tasks,
      updatedAt |-> job.updatedAt,
      progressPercent |-> IF totalTasks = 0 THEN 0
                          ELSE RoundPercent(completedTasks, totalTasks),
      completedTasks |-> completedTasks,
      totalTasks |-> totalTasks,
      allCompleted |-> totalTasks > 0 /\ completedTasks = totalTasks]

\* store.jobs.find(job => job.id === jobId): the ids that match (none or one)
getJobById(jobId) == {j \in DOMAIN jobs : j = jobId}

\* store.jobs.find(candidate => candidate.technicianToken === technicianToken)
\* on the jobs of a store as readStore returned it
FindByTechnicianToken(storeJobs, technicianToken) ==
  {j \in DOMAIN storeJobs : storeJobs[j].technicianToken = technicianToken}

\* the same on the store as it is now
JobsByTechnicianToken(token) == FindByTechnicianToken(jobs, token)

\* store.owners.find(owner => owner.id === ownerId)
getOwner(ownerId) == {o \in DOMAIN owners : o = ownerId}

TaskIndex(job, taskId) == {i \in DOMAIN job.tasks : job.tasks[i].id = taskId}

\* The updaters the three store functions hand to withWriteLock, run on the
\* jobs of the store it read.  They return "null" (no job has the token),
\* "throw" (the updater threw, nothing is written) or "ok" with the job as
\* changed in that store.
updateTaskUpdater(storeJobs, technicianToken, taskId, completed, t) ==
  LET found == FindByTechnicianToken(storeJobs, technicianToken)
  IN IF found = {} THEN [kind |-> "null"]
     ELSE LET j == CHOOSE x \in found : TRUE
              job == storeJobs[j]
              at == TaskIndex(job, taskId)
          IN IF at = {} THEN [kind |-> "throw"]
             ELSE LET i == CHOOSE x \in at : TRUE
                      value == IF completed = "undefined"
                               THEN ~job.tasks[i].completed
                               ELSE completed = "true"
                  IN [kind |-> "ok",
                      job |-> [job EXCEPT !.tasks[i].completed = value,
                                          !.updatedAt = t]]

\* randomUUID() for a note entry: an id none of the job's entries has
randomUUID(noteEntries) == Len(noteEntries) + 1

setAllTasksUpdater(storeJobs, technicianToken, completed, t) ==
  LET found == FindByTechnicianToken(storeJobs, technicianToken)
  IN IF found = {} THEN [kind |-> "null"]
     ELSE LET j == CHOOSE x \in found : TRUE
              job == storeJobs[j]
          IN [kind |-> "ok",
              job |-> [job EXCEPT
                         !.tasks = [i \in DOMAIN job.tasks |->
                                      [job.tasks[i] EXCEPT !.completed = completed]],
                         !.updatedAt = t]]

updateNotesUpdater(storeJobs, technicianToken, message, t) ==
  LET found == FindByTechnicianToken(storeJobs, technicianToken)
  IN IF found = {} THEN [kind |-> "null"]
     ELSE LET j == CHOOSE x \in found : TRUE
              job == storeJobs[j]
          IN [kind |-> "ok",
              job |-> [job EXCEPT
                         !.noteEntries = Append(@, [id |-> randomUUID(@),
                                                    message |-> message,
                                                    createdAt |-> t]),
                         !.updatedAt = t]]

\* The three store functions as their caller sees them when nothing else
\* touches the store between the read and the write of withWriteLock.
updateTaskByTechnicianToken(technicianToken, taskId, completed, t) ==
  updateTaskUpdater(jobs, technicianToken, taskId, completed, t)

\* setAllTasksByTechnicianToken stopping after the first task
setAllTasksByTechnicianToken_FirstOnly(technicianToken, completed, t) ==
  LET found == JobsByTechnicianToken(technicianToken)
  IN IF found = {} THEN [kind |-> "null"]
     ELSE LET j == CHOOSE x \in found : TRUE
              job == jobs[j]
          IN [kind |-> "ok",
              job |-> [job EXCEPT
                         !.tasks = [i \in DOMAIN job.tasks |->
                                      IF i > 1 THEN job.tasks[i]
                                      ELSE [job.tasks[i] EXCEPT
                                              !.completed = completed]],
                         !.updatedAt = t]]

setAllTasksByTechnicianToken(technicianToken, completed, t) ==
  setAllTasksUpdater(jobs, technicianToken, completed, t)

\* the note is trimmed and refused if empty before the lock is asked for
updateNotesByTechnicianToken(technicianToken, notes, t) ==
  LET message == Trim(notes)
  IN IF message = "" THEN [kind |-> "throw"]
     ELSE updateNotesUpdater(jobs, technicianToken, message, t)

\* -------------------------------------------------------- lib/job-events
sequenceKey(jobId) == <<"trackmyfix:job:seq", jobId>>
ownerSequenceKey(ownerId) == <<"trackmyfix:owner:seq", ownerId>>

\* what upstashRedis.get resolves to: the stored number, or null
RedisGet(key) ==
  IF key \in DOMAIN redis THEN [type |-> "number", value |-> redis[key]]
  ELSE [type |-> "null", value |-> 0]

\* RedisIncr as a write of 1 instead of an increment
RedisIncr_Overwrite(key) ==
  [k \in DOMAIN redis \cup {key} |-> IF k = key THEN 1 ELSE redis[k]]

\* the INCR command: one atomic step of the counter store
RedisIncr(key) ==
  IF key \in DOMAIN redis THEN [redis EXCEPT ![key] = @ + 1]
  ELSE [k \in DOMAIN redis \cup {key} |-> IF k = key THEN 1 ELSE redis[k]]

\* getJobUpdateSequence / getOwnerUpdateSequence after the await: the reply
\* as a number, 0 for anything that is not one
SequenceOf(reply) == IF reply.type = "number" THEN reply.value ELSE 0

\* incrementJobSequence / incrementOwnerSequence up to their await: nothing
\* without a client, else one INCR request leaves for the counter store
StartIncrement(p, pending, key) ==
  IF ~upstashRedis[p] THEN pending
  ELSE [pending EXCEPT ![key] = @ + 1]

\* StartJobIncrements without the owner's increment
StartJobIncrements_JobOnly(p, job) ==
  StartIncrement(p, incrs, sequenceKey(job.id))

\* StartJobIncrements with one pair of increments per task of the job
StartJobIncrements_PerTask(p, job) ==
  IF ~upstashRedis[p] THEN incrs
  ELSE [incrs EXCEPT ![sequenceKey(job.id)] = @ + Len(job.tasks),
                     ![ownerSequenceKey(job.ownerId)] = @ + Len(job.tasks)]

\* emitJobUpdated of the counter revision: both increments are started and
\* the promise is dropped (void Promise.all)
StartJobIncrements(p, job) ==
  StartIncrement(p, StartIncrement(p, incrs, sequenceKey(job.id)),
                 ownerSequenceKey(job.ownerId))

\* EmitOutcome of a notifier that awaits its increments: a failure of the
\* counter store reaches the caller
EmitOutcome_Awaiting(p) ==
  IF upstashRedis[p] /\ ~redisUp THEN "threw" ELSE "returned"

\* what the caller of emitJobUpdated / emitOwnerUpdated gets back: the call
\* returns before any increment settles and nothing is thrown
EmitOutcome(p) == "returned"

\* emitter.on(eventName(jobId), callback)
onJobUpdated(p, jobId, s) ==
  [emitter EXCEPT ![p][jobId] = Append(@, s)]

RECURSIVE Without(_, _)
Without(list, s) ==
  IF list = <<>> THEN <<>>
  ELSE IF Head(list) = s THEN Tail(list)
       ELSE <<Head(list)>> \o Without(Tail(list), s)

\* emitter.off(eventName(jobId), callback)
unsubscribe(p, jobId, s) ==
  [emitter EXCEPT ![p][jobId] = Without(@, s)]

\* the sessions whose callback emitter.emit(eventName(job.id), job) runs: the
\* listeners registered in the emitting process
Listeners(p, jobId) == {emitter[p][jobId][i] : i \in DOMAIN emitter[p][jobId]}

\* ------------------------------------------------------- stream sessions
FreeSession ==
  [kind |-> "none", state |-> "free", status |-> 0, proc |-> "", target |-> "",
   role |-> "", token |-> "", principal |-> "", out |-> <<>>, pings |-> 0,
   heartbeat |-> FALSE, poller |-> FALSE, polling |-> FALSE, closed |-> FALSE,
   lastSequence |-> 0, read |-> "none", readValue |-> 0,
   initialSequence |-> 0, seen |-> 0]

ConnectedJob(job) == [type |-> "connected", job |-> toJobSession(job)]
\* JobUpdated announcing itself as connected
JobUpdated_AsConnected(job) == [type |-> "connected", job |-> toJobSession(job)]
\* JobUpdated sending the job as stored before the write
JobUpdated_BeforeWrite(job) ==
  [type |-> "job.updated", job |-> toJobSession(jobs[job.id])]
JobUpdated(job) == [type |-> "job.updated", job |-> toJobSession(job)]
ConnectedOwner(ownerId) == [type |-> "connected", ownerId |-> ownerId]
OwnerUpdated(ownerId) == [type |-> "owner.updated", ownerId |-> ownerId]

\* the job stream's send: the payload is enqueued
JobSend(session, event) == [session EXCEPT !.out = Append(@, event)]

\* OwnerSend without the closed check
OwnerSend_IgnoringClosed(session, event) ==
  [session EXCEPT !.out = Append(@, event)]

\* the owner stream's send: nothing once the session is closed
OwnerSend(session, event) ==
  IF session.closed THEN session
  ELSE [session EXCEPT !.out = Append(@, event)]

\* JobStreamStatus accepting either token of the job for either role
JobStreamStatus_EitherToken(jobId, role, token) ==
  IF (role # "customer" /\ role # "technician") \/ token = "" THEN 401
  ELSE IF getJobById(jobId) = {} THEN 404
  ELSE IF jobs[jobId].customerToken = token \/ jobs[jobId].technicianToken = token
       THEN 200 ELSE 401

\* the status the job stream route answers a request with
JobStreamStatus(jobId, role, token) ==
  IF (role # "customer" /\ role # "technician") \/ token = "" THEN 401
  ELSE IF getJobById(jobId) = {} THEN 404
  ELSE LET job == jobs[jobId]
           isAuthorized ==
             \/ role = "customer" /\ job.customerToken = token
             \/ role = "technician" /\ job.technicianToken = token
       IN IF ~isAuthorized THEN 401 ELSE 200

\* requireManagerIdentity: the status, 200 with the identity's e-mail
requireManagerIdentity(clerk) ==
  IF clerk = "anonymous" THEN [status |-> 401, email |-> ""]
  ELSE IF ToLower(clerk) = "" THEN [status |-> 403, email |-> ""]
  ELSE [status |-> 200, email |-> ToLower(clerk)]

\* authorizeOwnerAccess without the comparison of the e-mail addresses
authorizeOwnerAccess_AnyManager(ownerId, clerk) ==
  LET manager == requireManagerIdentity(clerk)
  IN IF manager.status # 200 THEN manager
     ELSE IF getOwner(ownerId) = {} THEN [status |-> 404, email |-> ""]
     ELSE manager

authorizeOwnerAccess(ownerId, clerk) ==
  LET manager == requireManagerIdentity(clerk)
  IN IF manager.status # 200 THEN manager
     ELSE IF getOwner(ownerId) = {} THEN [status |-> 404, email |-> ""]
     ELSE IF ToLower(owners[ownerId].email) # manager.email
          THEN [status |-> 403, email |-> ""]
     ELSE manager

\* connections are numbered in the order the requests arrive
NextFree(s) ==
  /\ sessions[s].state = "free"
  /\ \A r \in DOMAIN sessions : r < s => sessions[r].state # "free"

\* ------------------------------------------------------------ initial state
Keys == {sequenceKey(j) : j \in JobIds} \cup
        {ownerSequenceKey(o) : o \in OwnerIds}

\* the store file as the behaviours find it: two owners, each with a
\* template, and two jobs of the first owner that carry its business details
InitialOwner(o) ==
  IF o = "o1"
  THEN [email |-> "ann@x.io", businessName |-> "Ann Fix", businessPhone |-> "555-0101"]
  ELSE [email |-> "bob@x.io", businessName |-> "Bob Fix", businessPhone |-> "555-0102"]

InitialJob(j) ==
  [id |-> j, ownerId |-> InitialOwnerOf(j),
   businessName |-> InitialOwner(InitialOwnerOf(j)).businessName,
   businessPhone |-> InitialOwner(InitialOwnerOf(j)).businessPhone,
   tasks |-> InitialTasks(j), noteEntries |-> <<>>,
   technicianToken |-> technicianTokenOf(j),
   customerToken |-> customerTokenOf(j), updatedAt |-> 0]

TemplateIds == {"t1", "t2"}

InitialTemplate(t) == [id |-> t, ownerId |-> IF t = "t1" THEN "o1" ELSE "o2"]

\* the page before the browser has opened it
NoPage ==
  [state |-> "unmounted", ownerId |-> "", jobs |-> <<>>, fetches |-> <<>>,
   handled |-> 0, timer |-> FALSE]

\* no write is queued, no manager page is open
InitAside ==
  /\ templates = [t \in TemplateIds |-> InitialTemplate(t)]
  /\ writeQueue = [p \in Procs |-> <<>>]
  /\ results = <<>>
  /\ page = NoPage

\* the state before the first request, the connections apart
InitStore ==
  /\ owners = [o \in OwnerIds |-> InitialOwner(o)]
  /\ jobs = [j \in JobIds |-> InitialJob(j)]
  /\ now = 0
  /\ redis = <<>>
  /\ redisUp = TRUE
  /\ incrs = [k \in Keys |-> 0]
  /\ emitter = [p \in Procs |-> [j \in JobIdInputs |-> <<>>]]
  /\ resp = [n |-> 0, status |-> 0, jobId |-> "", request |-> <<>>,
             job |-> <<>>, record |-> <<>>]
  /\ mutated = [j \in JobIds |-> 0]
  /\ notified = [j \in JobIds |-> 0]
  /\ settled = [k \in Keys |-> 0]
  /\ InitAside

InitCommon == InitStore /\ sessions = [s \in SessIds |-> FreeSession]

\* every server process has the counter store configured
Init == InitCommon /\ upstashRedis = [p \in Procs |-> TRUE]

\* the environment of a process may lack the counter store's credentials
InitFault ==
  InitCommon /\ \E configured \in BOOLEAN : upstashRedis = [p \in Procs |-> configured]

\* The jobs the snapshot is taken of.  createJob accepts any number of
\* tasks from one up, deleting tasks may leave none; a job's notes carry the
\* wall-clock time of the process that wrote them, so the stored order need
\* not be the order of createdAt.
ProjectedTasks(total, completed) ==
  [i \in 1..total |-> [id |-> "a" \o ToString(i), completed |-> i <= completed]]

NoteStamps == 0..2

ProjectedNotes(stamps) ==
  [i \in DOMAIN stamps |-> [id |-> i, message |-> "n1", createdAt |-> stamps[i]]]

StampInputs == UNION {[1..n -> NoteStamps] : n \in 0..MaxNotes}

\* job j1 is the job looked at: any number of tasks of which the first few
\* are completed, or its two tasks and some notes
InitProjector ==
  /\ owners = [o \in OwnerIds |-> InitialOwner(o)]
  /\ \E total \in 0..MaxTasks, completed \in 0..MaxTasks, stamps \in StampInputs :
       /\ completed <= total
       /\ stamps = <<>> \/ (total = Len(InitialTasks("j1")) /\ completed = 0)
       /\ jobs = [j \in JobIds |->
                    IF j # "j1" THEN InitialJob(j)
                    ELSE [InitialJob(j) EXCEPT
                            !.tasks = ProjectedTasks(total, completed),
                            !.noteEntries = ProjectedNotes(stamps)]]
  /\ now = 0
  /\ redis = <<>>
  /\ redisUp = TRUE
  /\ upstashRedis = [p \in Procs |-> TRUE]
  /\ incrs = [k \in Keys |-> 0]
  /\ emitter = [p \in Procs |-> [j \in JobIdInputs |-> <<>>]]
  /\ sessions = [s \in SessIds |-> FreeSession]
  /\ resp = [n |-> 0, status |-> 0, jobId |-> "", request |-> <<>>,
             job |-> <<>>, record |-> <<>>]
  /\ mutated = [j \in JobIds |-> 0]
  /\ notified = [j \in JobIds |-> 0]
  /\ settled = [k \in Keys |-> 0]
  /\ InitAside

\* --------------------------------------------------- technician mutations
\* an error response of a PATCH handler (errorResponse)
Response(status, jobId) ==
  [n |-> resp.n + 1, status |-> status, jobId |-> jobId, request |-> <<>>,
   job |-> <<>>, record |-> <<>>]

\* JobAfterProjection sorting job.noteEntries itself instead of a copy
JobAfterProjection_SortInPlace(job) ==
  [job EXCEPT !.noteEntries = sortNoteEntriesDesc(@)]

\* the job object a handler holds once toJobSession(job) has returned: the
\* projection reads its fields and sorts a copy of noteEntries
JobAfterProjection(job) == job

\* NextResponse.json({ job: toJobSession(job) }) as the n-th answer, to
\* request: the snapshot sent, and the job object the handler is left with
Answered(n, request, job) ==
  [n |-> n, status |-> 200, jobId |-> job.id, request |-> request,
   job |-> <<toJobSession(job)>>, record |-> <<JobAfterProjection(job)>>]

\* A PATCH handler once its store call has returned job: emitJobUpdated(job)
\* and the 200 response.  The listeners of the handling process p each send
\* job.updated, and the two increments are started.
Succeed(p, request, job) ==
  /\ mutated' = [mutated EXCEPT ![job.id] = @ + 1]
  /\ IF EmitOutcome(p) = "returned"
     THEN /\ notified' = [notified EXCEPT ![job.id] = @ + 1]
          /\ sessions' = [s \in DOMAIN sessions |->
                            IF s \in Listeners(p, job.id)
                            THEN [JobSend(sessions[s], JobUpdated(job))
                                    EXCEPT !.seen = notified[job.id] + 1]
                            ELSE sessions[s]]
          /\ incrs' = StartJobIncrements(p, job)
          /\ resp' = Answered(resp.n + 1, request, job)
     ELSE /\ resp' = Response(400, "")
          /\ UNCHANGED <<incrs, sessions, notified>>

\* The tail of the three PATCH handlers, given what the store call returned:
\* 404 for null, 400 for a throw, else the job is written and the handler
\* goes on as above.
Respond(p, request, result, t) ==
  IF result.kind = "null" \/ result.kind = "throw" THEN
    /\ resp' = Response(IF result.kind = "null" THEN 404 ELSE 400, "")
    /\ UNCHANGED <<jobs, now, incrs, sessions, mutated, notified>>
  ELSE
    LET job == result.job IN
    /\ jobs' = [jobs EXCEPT ![job.id] = job]
    /\ now' = t
    /\ Succeed(p, request, job)

\* PATCH /api/session/technician/[token]/task
PatchTask(p, token, taskId, completed) ==
  /\ resp.n < MaxPatches
  /\ IF taskId = "undefined"
     THEN /\ resp' = Response(400, "")
          /\ UNCHANGED <<jobs, now, incrs, sessions, mutated, notified>>
     ELSE LET t == now + 1 IN
          Respond(p, <<"task", taskId, completed>>,
                  updateTaskByTechnicianToken(token, taskId, completed, t), t)
  /\ UNCHANGED <<templates, writeQueue, results, page>>
  /\ UNCHANGED <<owners, redis, redisUp, upstashRedis, emitter, settled>>

\* PATCH /api/session/technician/[token]/notes
PatchNotes(p, token, notes) ==
  /\ resp.n < MaxPatches
  /\ IF notes = "undefined"
     THEN /\ resp' = Response(400, "")
          /\ UNCHANGED <<jobs, now, incrs, sessions, mutated, notified>>
     ELSE LET t == now + 1 IN
          Respond(p, <<"notes", notes>>,
                  updateNotesByTechnicianToken(token, notes, t), t)
  /\ UNCHANGED <<templates, writeQueue, results, page>>
  /\ UNCHANGED <<owners, redis, redisUp, upstashRedis, emitter, settled>>

\* PATCH /api/session/technician/[token]/tasks (mark all); a body whose
\* completed is not a boolean is answered 400 before the store is touched
PatchTasks(p, token, completed) ==
  /\ resp.n < MaxPatches
  /\ IF completed = "undefined"
     THEN /\ resp' = Response(400, "")
          /\ UNCHANGED <<jobs, now, incrs, sessions, mutated, notified>>
     ELSE LET t == now + 1 IN
          Respond(p, <<"tasks", completed>>,
                  setAllTasksByTechnicianToken(token, completed = "true", t), t)
  /\ UNCHANGED <<templates, writeQueue, results, page>>
  /\ UNCHANGED <<owners, redis, redisUp, upstashRedis, emitter, settled>>

\* ------------------------------------------------- the session snapshot
\* store.jobs.find by the token of the role
getJobByToken(role, value) ==
  IF role = "customer"
  THEN {j \in DOMAIN jobs : jobs[j].customerToken = value}
  ELSE {j \in DOMAIN jobs : jobs[j].technicianToken = value}

\* GET /api/session/[role]/[token]: 404 for another role or an unknown
\* token, else the snapshot of the job
GetSession(role, token) ==
  /\ IF role # "customer" /\ role # "technician"
     THEN resp' = [Response(404, "") EXCEPT !.n = resp.n]
     ELSE LET found == getJobByToken(role, token) IN
          IF found = {} THEN resp' = [Response(404, "") EXCEPT !.n = resp.n]
          ELSE resp' = Answered(resp.n, <<"session", role, token>>,
                                jobs[CHOOSE j \in found : TRUE])
  /\ UNCHANGED <<templates, writeQueue, results, page>>
  /\ UNCHANGED <<owners, jobs, now, redis, redisUp, upstashRedis, incrs,
                 emitter, sessions, mutated, notified, settled>>

\* ------------------------------------------------------- the counter store
\* an INCR request reaches the counter store
IncrSettle(key) ==
  /\ incrs[key] > 0
  /\ redisUp
  /\ redis' = RedisIncr(key)
  /\ incrs' = [incrs EXCEPT ![key] = @ - 1]
  /\ settled' = [settled EXCEPT ![key] = @ + 1]
  /\ UNCHANGED <<templates, writeQueue, results, page>>
  /\ UNCHANGED <<owners, jobs, now, redisUp, upstashRedis, emitter,
                 sessions, resp, mutated, notified>>

\* an INCR request fails: the dropped promise rejects, nobody is told
IncrFail(key) ==
  /\ incrs[key] > 0
  /\ ~redisUp
  /\ incrs' = [incrs EXCEPT ![key] = @ - 1]
  /\ UNCHANGED <<templates, writeQueue, results, page>>
  /\ UNCHANGED <<owners, jobs, now, redis, redisUp, upstashRedis,
                 emitter, sessions, resp, mutated, notified, settled>>

RedisOutage ==
  /\ redisUp
  /\ redisUp' = FALSE
  /\ UNCHANGED <<templates, writeQueue, results, page>>
  /\ UNCHANGED <<owners, jobs, now, redis, upstashRedis, incrs, emitter,
                 sessions, resp, mutated, notified, settled>>

RedisRecover ==
  /\ ~redisUp
  /\ redisUp' = TRUE
  /\ UNCHANGED <<templates, writeQueue, results, page>>
  /\ UNCHANGED <<owners, jobs, now, redis, upstashRedis, incrs,
                 emitter, sessions, resp, mutated, notified, settled>>

\* ------------------------------------------------------ the job stream
\* GET /api/events/job/[jobId]?role=&token= handled by process p: an error
\* response, or the stream, whose start sends connected with the job as read,
\* subscribes to the emitter of p and arms the heartbeat
JobOpen(s, p, jobId, role, token) ==
  /\ NextFree(s)
  /\ LET status == JobStreamStatus(jobId, role, token) IN
     IF status # 200 THEN
       /\ sessions' = [sessions EXCEPT ![s] =
            [FreeSession EXCEPT !.kind = "job", !.state = "rejected",
               !.status = status, !.target = jobId, !.role = role,
               !.token = token]]
       /\ UNCHANGED emitter
     ELSE
       /\ sessions' = [sessions EXCEPT ![s] =
            [FreeSession EXCEPT !.kind = "job", !.state = "open", !.status = 200,
               !.proc = p, !.target = jobId, !.role = role, !.token = token,
               !.out = <<ConnectedJob(jobs[jobId])>>, !.heartbeat = TRUE,
               !.seen = notified[jobId]]]
       /\ emitter' = onJobUpdated(p, jobId, s)
  /\ UNCHANGED <<templates, writeQueue, results, page>>
  /\ UNCHANGED <<owners, jobs, now, redis, redisUp, upstashRedis, incrs,
                 resp, mutated, notified, settled>>

\* JobPing counting its keep-alive lines in the job's sequence counter
JobPing_Counting(s) ==
  /\ sessions[s].kind = "job"
  /\ sessions[s].heartbeat
  /\ sessions' = [sessions EXCEPT ![s].pings = 1 - @]
  /\ redis' = RedisIncr(sequenceKey(sessions[s].target))
  /\ UNCHANGED <<templates, writeQueue, results, page>>
  /\ UNCHANGED <<owners, jobs, now, redisUp, upstashRedis, incrs,
                 emitter, resp, mutated, notified, settled>>

\* the job stream's heartbeat interval fires
JobPing(s) ==
  /\ sessions[s].kind = "job"
  /\ sessions[s].heartbeat
  /\ sessions' = [sessions EXCEPT ![s].pings = 1 - @]
  /\ UNCHANGED <<templates, writeQueue, results, page>>
  /\ UNCHANGED <<owners, jobs, now, redis, redisUp, upstashRedis, incrs,
                 emitter, resp, mutated, notified, settled>>

\* the job stream's cancel: the client went away
JobCancel(s) ==
  /\ sessions[s].kind = "job"
  /\ sessions[s].state = "open"
  /\ sessions' = [sessions EXCEPT ![s].state = "closed",
                                  ![s].heartbeat = FALSE]
  /\ emitter' = unsubscribe(sessions[s].proc, sessions[s].target, s)
  /\ UNCHANGED <<templates, writeQueue, results, page>>
  /\ UNCHANGED <<owners, jobs, now, redis, redisUp, upstashRedis, incrs,
                 resp, mutated, notified, settled>>

\* ---------------------------------------------------- the owner stream
\* start of the owner stream once lastSequence is known: connected is sent,
\* the poller and the heartbeat are armed
OwnerStarted(session, value) ==
  [OwnerSend(session, ConnectedOwner(session.target))
     EXCEPT !.state = "open", !.lastSequence = value,
            !.initialSequence = value, !.read = "none",
            !.heartbeat = TRUE, !.poller = TRUE]

\* GET /api/events/owner/[ownerId] handled by process p for the signed-in
\* user clerk: an error response, or the first counter read is started
OwnerOpen(s, p, ownerId, clerk) ==
  /\ NextFree(s)
  /\ LET manager == authorizeOwnerAccess(ownerId, clerk) IN
     IF manager.status # 200 THEN
       sessions' = [sessions EXCEPT ![s] =
         [FreeSession EXCEPT !.kind = "owner", !.state = "rejected",
            !.status = manager.status, !.target = ownerId,
            !.principal = clerk]]
     ELSE
       LET opened == [FreeSession EXCEPT !.kind = "owner",
                        !.state = "connecting", !.status = 200, !.proc = p,
                        !.target = ownerId, !.role = "manager",
                        !.token = manager.email, !.principal = clerk,
                        !.read = "sent"]
       IN sessions' = [sessions EXCEPT ![s] =
                         IF upstashRedis[p] THEN opened
                         ELSE OwnerStarted(opened, 0)]
  /\ UNCHANGED <<templates, writeQueue, results, page>>
  /\ UNCHANGED <<owners, jobs, now, redis, redisUp, upstashRedis, incrs,
                 emitter, resp, mutated, notified, settled>>

\* the counter store answers a GET of a session: the reply leaves with the
\* value the key has now
ReadServe(s) ==
  /\ sessions[s].read = "sent"
  /\ redisUp
  /\ sessions' = [sessions EXCEPT
       ![s].read = "served",
       ![s].readValue = SequenceOf(RedisGet(ownerSequenceKey(sessions[s].target)))]
  /\ UNCHANGED <<templates, writeQueue, results, page>>
  /\ UNCHANGED <<owners, jobs, now, redis, redisUp, upstashRedis, incrs,
                 emitter, resp, mutated, notified, settled>>

\* the first read returns: the stream is built and started
OwnerStart(s) ==
  /\ sessions[s].state = "connecting"
  /\ sessions[s].read = "served"
  /\ sessions' = [sessions EXCEPT ![s] = OwnerStarted(@, @.readValue)]
  /\ UNCHANGED <<templates, writeQueue, results, page>>
  /\ UNCHANGED <<owners, jobs, now, redis, redisUp, upstashRedis, incrs,
                 emitter, resp, mutated, notified, settled>>

\* the first read rejects: the route handler throws, no stream is made
OwnerStartFail(s) ==
  /\ sessions[s].state = "connecting"
  /\ sessions[s].read = "sent"
  /\ ~redisUp
  /\ sessions' = [sessions EXCEPT ![s] =
       [FreeSession EXCEPT !.kind = "owner", !.state = "rejected",
          !.status = 500, !.target = sessions[s].target,
          !.principal = sessions[s].principal, !.read = "rejected"]]
  /\ UNCHANGED <<templates, writeQueue, results, page>>
  /\ UNCHANGED <<owners, jobs, now, redis, redisUp, upstashRedis, incrs,
                 emitter, resp, mutated, notified, settled>>

\* PollResult comparing with >= : a poll that reads no advance pushes too
PollResult_NotStrict(session, currentSequence) ==
  LET pushed == IF currentSequence >= session.lastSequence
                THEN [OwnerSend(session, OwnerUpdated(session.target))
                        EXCEPT !.lastSequence = currentSequence]
                ELSE session
  IN [pushed EXCEPT !.polling = FALSE, !.read = "none"]

\* PollResult pushing without recording the sequence it read
PollResult_KeepsLast(session, currentSequence) ==
  LET pushed == IF currentSequence > session.lastSequence
                THEN OwnerSend(session, OwnerUpdated(session.target))
                ELSE session
  IN [pushed EXCEPT !.polling = FALSE, !.read = "none"]

\* PollResult pushing one event for each increment it missed
PollResult_PerIncrement(session, currentSequence) ==
  LET missed == currentSequence - session.lastSequence
      pushed == IF missed > 0
                THEN [session EXCEPT
                        !.lastSequence = currentSequence,
                        !.out = IF session.closed THEN @
                                ELSE @ \o [i \in 1..missed |->
                                             OwnerUpdated(session.target)]]
                ELSE session
  IN [pushed EXCEPT !.polling = FALSE, !.read = "none"]

\* what a poll does with the sequence it read
PollResult(session, currentSequence) ==
  LET pushed == IF currentSequence > session.lastSequence
                THEN [OwnerSend(session, OwnerUpdated(session.target))
                        EXCEPT !.lastSequence = currentSequence]
                ELSE session
  IN [pushed EXCEPT !.polling = FALSE, !.read = "none"]

\* PollSkipped without the test of polling
PollSkipped_NoGuard(session) == session.closed

\* the poller's first statement: if (closed || polling) return
PollSkipped(session) == session.closed \/ session.polling

\* the poller interval fires: the tick returns at once while closed or a
\* poll is outstanding, else the read is started (without a client it
\* resolves to 0 at once)
PollTick(s) ==
  /\ sessions[s].kind = "owner"
  /\ sessions[s].poller
  /\ sessions' = [sessions EXCEPT ![s] =
       IF PollSkipped(@) THEN @
       ELSE IF upstashRedis[@.proc]
            THEN [@ EXCEPT !.polling = TRUE, !.read = "sent"]
            ELSE PollResult([@ EXCEPT !.polling = TRUE], 0)]
  /\ UNCHANGED <<templates, writeQueue, results, page>>
  /\ UNCHANGED <<owners, jobs, now, redis, redisUp, upstashRedis, incrs,
                 emitter, resp, mutated, notified, settled>>

\* the poll's read returns
PollReturn(s) ==
  /\ sessions[s].polling
  /\ sessions[s].read = "served"
  /\ sessions' = [sessions EXCEPT ![s] = PollResult(@, @.readValue)]
  /\ UNCHANGED <<templates, writeQueue, results, page>>
  /\ UNCHANGED <<owners, jobs, now, redis, redisUp, upstashRedis, incrs,
                 emitter, resp, mutated, notified, settled>>

\* the poll's read rejects: finally clears polling, the rejection is dropped
PollFail(s) ==
  /\ sessions[s].polling
  /\ sessions[s].read = "sent"
  /\ ~redisUp
  /\ sessions' = [sessions EXCEPT ![s].polling = FALSE,
                                  ![s].read = "rejected"]
  /\ UNCHANGED <<templates, writeQueue, results, page>>
  /\ UNCHANGED <<owners, jobs, now, redis, redisUp, upstashRedis, incrs,
                 emitter, resp, mutated, notified, settled>>

\* the owner stream's heartbeat interval fires
OwnerPing(s) ==
  /\ sessions[s].kind = "owner"
  /\ sessions[s].heartbeat
  /\ ~sessions[s].closed
  /\ sessions' = [sessions EXCEPT ![s].pings = 1 - @]
  /\ UNCHANGED <<templates, writeQueue, results, page>>
  /\ UNCHANGED <<owners, jobs, now, redis, redisUp, upstashRedis, incrs,
                 emitter, resp, mutated, notified, settled>>

\* the owner stream's cancel
OwnerCancel(s) ==
  /\ sessions[s].kind = "owner"
  /\ sessions[s].state = "open"
  /\ sessions' = [sessions EXCEPT ![s].state = "closed", ![s].closed = TRUE,
                                  ![s].heartbeat = FALSE, ![s].poller = FALSE]
  /\ UNCHANGED <<templates, writeQueue, results, page>>
  /\ UNCHANGED <<owners, jobs, now, redis, redisUp, upstashRedis, incrs,
                 emitter, resp, mutated, notified, settled>>

\* ---------------------------------------------------------- specifications
\* a technician PATCH request reaches one of the processes
Mutate(procs, tokens, taskIds, completeds, bodies) ==
  \E p \in procs, token \in tokens :
    \/ \E taskId \in taskIds, completed \in completeds :
         PatchTask(p, token, taskId, completed)
    \/ \E notes \in bodies : PatchNotes(p, token, notes)
    \/ \E completed \in completeds : PatchTasks(p, token, completed)

\* every request the model knows
MutateAny ==
  Mutate(Procs, TokenInputs, TaskIdInputs, CompletedInputs, NotesInputs)

\* the requests a viewer's stream is watched under: each endpoint, each job,
\* each answer (200, 400, 404)
ViewedTokenInputs ==
  {technicianTokenOf("j1"), technicianTokenOf("j2"), customerTokenOf("j1")}

MutateViewed ==
  Mutate(Procs, ViewedTokenInputs, {"a1"}, {"true", "undefined"}, {" n1 "})

\* the same requests, all handled by the process the viewer is not
\* connected to
MutateElsewhere ==
  Mutate({"pB"}, ViewedTokenInputs, {"a1"}, {"true", "undefined"}, {" n1 "})

JobStreamRequest(slots, procs) ==
  \E s \in slots, p \in procs, req \in JobRequestInputs :
    JobOpen(s, p, req[1], req[2], req[3])

OwnerStreamRequest(slots, procs, requests) ==
  \E s \in slots, p \in procs, req \in requests :
    OwnerOpen(s, p, req[1], req[2])

JobSession == \E s \in SessIds : JobPing(s) \/ JobCancel(s)

OwnerSession ==
  \E s \in SessIds :
    \/ ReadServe(s)
    \/ OwnerStart(s)
    \/ PollTick(s)
    \/ PollReturn(s)
    \/ OwnerPing(s)
    \/ OwnerCancel(s)

Counter == \E key \in Keys : IncrSettle(key)

Outage == RedisOutage \/ RedisRecover

IncrFault == \E key \in Keys : IncrFail(key)

ReadFault == \E s \in SessIds : OwnerStartFail(s) \/ PollFail(s)

\* One viewer connects, to process pA (the processes run the same code with
\* the same configuration); the technician's requests reach either process.
Next ==
  \/ MutateViewed
  \/ JobStreamRequest(SessIds, {"pA"})
  \/ OwnerStreamRequest(SessIds, {"pA"}, OwnerRequestInputs)
  \/ JobSession
  \/ OwnerSession
  \/ Counter

\* the requests for the stream of the owner whose jobs are mutated: by its
\* manager and by another
WatchedOwnerRequests == {<<"o1", "ann@x.io">>, <<"o1", "bob@x.io">>}

\* A manager connects to the owner stream of process pA, the technician's
\* requests go to process pB
NextOwner ==
  \/ MutateElsewhere
  \/ OwnerStreamRequest(SessIds, {"pA"}, WatchedOwnerRequests)
  \/ OwnerSession
  \/ Counter

\* The readers of the counter store while it may be down or unconfigured
NextFault ==
  \/ MutateViewed
  \/ OwnerStreamRequest(SessIds, {"pA"}, OwnerRequestInputs)
  \/ OwnerSession
  \/ Counter
  \/ Outage
  \/ IncrFault
  \/ ReadFault

\* The notifier and its callers
NextNotifier ==
  \/ MutateAny
  \/ Counter

\* The notifier and its callers while the counter store may be down or
\* unconfigured
NextNotifierFault ==
  \/ MutateAny
  \/ Counter
  \/ Outage
  \/ IncrFault

\* the session requests made: each role with its token, another role, the
\* token of the other role
SessionRequestInputs ==
  {<<"customer", customerTokenOf("j1")>>,
   <<"technician", technicianTokenOf("j1")>>,
   <<"manager", technicianTokenOf("j1")>>,
   <<"customer", technicianTokenOf("j1")>>}

SessionRequest == \E req \in SessionRequestInputs : GetSession(req[1], req[2])

\* the mutations of the job looked at: mark all, unmark all, add a note
MutateProjected ==
  \/ \E completed \in {"true", "false"} :
       PatchTasks("pA", technicianTokenOf("j1"), completed)
  \/ PatchNotes("pA", technicianTokenOf("j1"), " n1 ")

\* The snapshot of one job, asked for between its mutations
NextProjector ==
  \/ SessionRequest
  \/ MutateProjected

\* what the event loop and the counter store keep doing: settle requests,
\* fire the intervals, resume awaiting handlers.  Clients owe nothing.
\* (CounterFairness: a reachable counter store completes every INCR.)
CounterFairness == \A key \in Keys : WF_vars(IncrSettle(key))

Fairness ==
  /\ CounterFairness
  /\ \A s \in SessIds :
       /\ WF_vars(ReadServe(s))
       /\ WF_vars(OwnerStart(s))
       /\ WF_vars(PollTick(s))
       /\ WF_vars(PollReturn(s))
       /\ WF_vars(JobPing(s))
       /\ WF_vars(OwnerPing(s))

\* normal operation: the counter store is configured and reachable
Spec == Init /\ [][Next]_vars /\ Fairness

\* normal operation, the owner stream and what feeds it
OwnerSpec == Init /\ [][NextOwner]_vars /\ Fairness

\* normal operation, the notifier and its callers alone
NotifierSpec == Init /\ [][NextNotifier]_vars /\ CounterFairness

\* the counter store may be unconfigured and may be down
FaultSpec == InitFault /\ [][NextFault]_vars

NotifierFaultSpec == InitFault /\ [][NextNotifierFault]_vars

\* normal operation, the session snapshot of jobs of every size
ProjectorSpec == InitProjector /\ [][NextProjector]_vars

\* ------------------------------------------------------- withWriteLock
\* The PATCH actions above take a handler as one step.  Here the steps of a
\* handler that calls withWriteLock are taken apart: what it does before the
\* store call, the operation chained on the queue of its process, the read of
\* the store file when the operations before it have settled with the
\* updater run on what was read, and the write of the whole store with what
\* the handler does once the call has returned.  The handlers followed are
\* the task and notes PATCH of the technician and the manager's POST and
\* DELETE of a job and PATCH and DELETE of the owner.

\* the technician requests made while the queue is watched: each task of
\* job j1, a task it does not have, the token of its customer, a note on job
\* j2, an empty note
QueuedRequestInputs ==
  {<<"task", technicianTokenOf("j1"), "a1", "true">>,
   <<"task", technicianTokenOf("j1"), "a2", "true">>,
   <<"task", technicianTokenOf("j1"), "zz", "true">>,
   <<"task", customerTokenOf("j1"), "a1", "true">>,
   <<"notes", technicianTokenOf("j2"), " n1 ">>,
   <<"notes", technicianTokenOf("j2"), "  ">>}

\* the manager's requests, each with the owner id, the signed-in user and
\* what the body or the path adds: the title of the job to create, the id of
\* the job to delete, the business name and phone to set.  There are the
\* requests that succeed and, for each way of failing, one that fails
ManagerRequestInputs ==
  {<<"create", "o1", "ann@x.io", "Fix sink">>,
   <<"create", "o2", "bob@x.io", "Fix sink">>,
   <<"create", "o1", "ann@x.io", "  ">>,
   <<"create", "o1", "bob@x.io", "Fix sink">>,
   <<"create", "", "ann@x.io", "Fix sink">>,
   <<"delete", "o1", "ann@x.io", "j1">>,
   <<"delete", "o1", "ann@x.io", "jx">>,
   <<"delete", "o2", "bob@x.io", "j1">>,
   <<"delete", "o1", "anonymous", "j1">>,
   <<"delete", "", "ann@x.io", "j1">>,
   <<"updateOwner", "o1", "ann@x.io", "Ann Plumbing", "555-0199">>,
   <<"updateOwner", "o1", "ann@x.io", "  ", "555-0199">>,
   <<"deleteOwner", "o1", "ann@x.io">>,
   <<"deleteOwner", "o2", "ann@x.io">>}

\* the array f with the element of key k set, and without the keys in S
Put(f, k, v) == [x \in DOMAIN f \cup {k} |-> IF x = k THEN v ELSE f[x]]
Drop(f, S) == [x \in DOMAIN f \ S |-> f[x]]

\* readStore: the file parsed, a job without businessName given its owner's
readStore ==
  [owners |-> owners,
   templates |-> templates,
   jobs |-> [j \in DOMAIN jobs |->
               IF jobs[j].businessName # "" \/ jobs[j].ownerId \notin DOMAIN owners
               THEN jobs[j]
               ELSE [jobs[j] EXCEPT !.businessName = owners[jobs[j].ownerId].businessName]]]

\* what readStore makes of a file JSON.parse rejects
EMPTY_STORE == [owners |-> <<>>, templates |-> <<>>, jobs |-> <<>>]

\* the requests answered or waiting in a queue
Submitted ==
  Len(results) + Len(writeQueue["pA"]) + Len(writeQueue["pB"])

\* randomUUID() for the job of the caller-th request: the id of no other job
NewJobId(caller) == "j" \o ToString(caller + Cardinality(JobIds))

\* the tasks createJob builds from the names in the body
NewTasks == <<[id |-> "c1", completed |-> FALSE]>>

\* createJob's updater.  The owners of the model have no technicians, and
\* the requests name none
createJobUpdater(store, ownerId, id, t) ==
  IF ownerId \notin DOMAIN store.owners THEN [kind |-> "throw", store |-> store]
  ELSE LET owner == store.owners[ownerId]
           job == [id |-> id, ownerId |-> ownerId,
                   businessName |-> owner.businessName,
                   businessPhone |-> owner.businessPhone,
                   tasks |-> NewTasks, noteEntries |-> <<>>,
                   technicianToken |-> technicianTokenOf(id),
                   customerToken |-> customerTokenOf(id), updatedAt |-> t]
       IN [kind |-> "ok", job |-> job,
           store |-> [store EXCEPT !.jobs = Put(@, id, job)]]

\* deleteJobByOwner's updater
deleteJobUpdater(store, ownerId, jobId) ==
  LET index == {j \in DOMAIN store.jobs :
                  store.jobs[j].id = jobId /\ store.jobs[j].ownerId = ownerId}
  IN IF index = {} THEN [kind |-> "null", store |-> store]
     ELSE [kind |-> "ok", job |-> store.jobs[jobId],
           store |-> [store EXCEPT !.jobs = Drop(@, index)]]

\* updateOwner's updater leaving the jobs as they are
updateOwnerUpdater_OwnerOnly(store, ownerId, email, businessName, businessPhone) ==
  IF ownerId \notin DOMAIN store.owners THEN [kind |-> "null", store |-> store]
  ELSE [kind |-> "ok",
        store |-> [store EXCEPT
          !.owners[ownerId] = [@ EXCEPT !.email = email,
                                        !.businessName = businessName,
                                        !.businessPhone = businessPhone]]]

\* updateOwner's updater: the owner's fields are set and every job of the
\* owner is given the business name and phone
updateOwnerUpdater(store, ownerId, email, businessName, businessPhone) ==
  IF ownerId \notin DOMAIN store.owners THEN [kind |-> "null", store |-> store]
  ELSE [kind |-> "ok",
        store |-> [store EXCEPT
          !.owners[ownerId] = [@ EXCEPT !.email = email,
                                        !.businessName = businessName,
                                        !.businessPhone = businessPhone],
          !.jobs = [j \in DOMAIN @ |->
                      IF @[j].ownerId = ownerId
                      THEN [@[j] EXCEPT !.businessName = businessName,
                                        !.businessPhone = businessPhone]
                      ELSE @[j]]]]

\* deleteOwner's updater: the owner goes, with its templates and its jobs
deleteOwnerUpdater(store, ownerId) ==
  IF ownerId \notin DOMAIN store.owners THEN [kind |-> "null", store |-> store]
  ELSE [kind |-> "ok",
        store |-> [owners |-> Drop(store.owners, {ownerId}),
                   templates |-> Drop(store.templates,
                                      {x \in DOMAIN store.templates :
                                         store.templates[x].ownerId = ownerId}),
                   jobs |-> Drop(store.jobs,
                                 {j \in DOMAIN store.jobs :
                                    store.jobs[j].ownerId = ownerId})]]

\* a technician updater's result with the store it leaves
InStore(store, result) ==
  IF result.kind = "ok"
  THEN [kind |-> "ok", job |-> result.job,
        store |-> [store EXCEPT !.jobs[result.job.id] = result.job]]
  ELSE [kind |-> result.kind, store |-> store]

\* the updater of the caller-th request run on a store
Updater(store, caller, req, t) ==
  IF req[1] = "task"
    THEN InStore(store, updateTaskUpdater(store.jobs, req[2], req[3], req[4], t))
  ELSE IF req[1] = "notes"
    THEN InStore(store, updateNotesUpdater(store.jobs, req[2], Trim(req[3]), t))
  ELSE IF req[1] = "create"
    THEN createJobUpdater(store, req[2], NewJobId(caller), t)
  ELSE IF req[1] = "delete"
    THEN deleteJobUpdater(store, req[2], req[4])
  ELSE IF req[1] = "updateOwner"
    THEN updateOwnerUpdater(store, req[2], requireManagerIdentity(req[3]).email,
                            Trim(req[4]), Trim(req[5]))
  ELSE deleteOwnerUpdater(store, req[2])

\* What a handler does before its store call asks for the lock: 0 if it gets
\* there, else the status it answers with.  The technician's handlers check
\* the body, and updateNotesByTechnicianToken throws on an empty note; the
\* manager's handlers authorize, and createJob and updateOwner throw on an
\* empty field
Prelude(req) ==
  IF req[1] = "task" THEN (IF req[3] = "undefined" THEN 400 ELSE 0)
  ELSE IF req[1] = "notes"
    THEN (IF req[3] = "undefined" \/ Trim(req[3]) = "" THEN 400 ELSE 0)
  ELSE IF req[1] = "delete" /\ req[2] = "" THEN 400
  ELSE LET manager == authorizeOwnerAccess(req[2], req[3])
       IN IF manager.status # 200 THEN manager.status
          ELSE IF req[1] = "create" /\ Trim(req[4]) = "" THEN 400
          ELSE IF req[1] = "updateOwner" /\ (Trim(req[4]) = "" \/ Trim(req[5]) = "")
            THEN 400
          ELSE 0

\* the request as the response records it
RequestOf(req) ==
  IF req[1] = "task" THEN <<"task", req[3], req[4]>>
  ELSE IF req[1] = "notes" THEN <<"notes", req[3]>>
  ELSE req

\* emitOwnerUpdated sending the increment twice
emitOwnerUpdated_Twice(p, ownerId) ==
  StartIncrement(p, StartIncrement(p, incrs, ownerSequenceKey(ownerId)),
                 ownerSequenceKey(ownerId))

\* emitOwnerUpdated: the owner's increment is started and the promise dropped
emitOwnerUpdated(p, ownerId) ==
  StartIncrement(p, incrs, ownerSequenceKey(ownerId))

\* the job as the manager's API shows it: the snapshot and both tokens
JobSummary(job) ==
  LET snapshot == toJobSession(job)
  IN [f \in DOMAIN snapshot \cup {"technicianToken", "customerToken"} |->
        IF f = "technicianToken" THEN job.technicianToken
        ELSE IF f = "customerToken" THEN job.customerToken
        ELSE snapshot[f]]

\* the answer of a manager's handler whose store call returned
Managed(status, req, jobOrNone) ==
  [n |-> resp.n + 1, status |-> status, jobId |-> "", request |-> req,
   job |-> jobOrNone, record |-> <<>>]

\* the caller of withWriteLock is told: the outcome joins the record, with
\* the status the handler answered
Settle(p, op, kind, status) ==
  /\ results' = Append(results, [caller |-> op.caller, proc |-> p,
                                 request |-> op.request, kind |-> kind,
                                 status |-> status])
  /\ writeQueue' = [writeQueue EXCEPT ![p] = Tail(@)]

\* a request reaches process p: it is refused before the store call, or
\* withWriteLock chains the operation on writeQueue
Enqueue(p, req) ==
  /\ Submitted < MaxPatches
  /\ IF Prelude(req) # 0
     THEN /\ results' = Append(results, [caller |-> Submitted + 1, proc |-> p,
                                         request |-> req, kind |-> "refused",
                                         status |-> Prelude(req)])
          /\ resp' = Response(Prelude(req), "")
          /\ UNCHANGED writeQueue
     ELSE /\ writeQueue' = [writeQueue EXCEPT ![p] =
               Append(@, [caller |-> Submitted + 1, request |-> req,
                          phase |-> "queued",
                          result |-> [kind |-> "none", store |-> EMPTY_STORE]])]
          /\ UNCHANGED <<results, resp>>
  /\ UNCHANGED <<owners, jobs, templates, now, redis, redisUp, upstashRedis,
                 incrs, emitter, sessions, mutated, notified, settled, page>>

\* the operation at the head of the queue of p reads the store and runs its
\* updater.  An updater that throws rejects the operation before any write
\* and the handler answers 400; else the operation holds the store as read
\* with the updater's change, to be written
ReadStore(p) ==
  /\ writeQueue[p] # <<>>
  /\ Head(writeQueue[p]).phase = "queued"
  /\ LET op == Head(writeQueue[p])
         t == now + 1
         result == Updater(readStore, op.caller, op.request, t)
     IN /\ now' = t
        /\ IF result.kind = "throw"
           THEN /\ Settle(p, op, "throw", 400)
                /\ resp' = Response(400, "")
           ELSE /\ writeQueue' = [writeQueue EXCEPT ![p][1] =
                     [op EXCEPT !.phase = "read", !.result = result]]
                /\ UNCHANGED <<results, resp>>
  /\ UNCHANGED <<owners, jobs, templates, redis, redisUp, upstashRedis, incrs,
                 emitter, sessions, mutated, notified, settled, page>>

\* the handler once its store call has returned: 404 for null; else the
\* technician's handlers emit the job's update and answer its snapshot, the
\* POST and the DELETE of a job emit the owner's update, the PATCH and the
\* DELETE of the owner emit nothing
Continue(p, op) ==
  LET req == op.request IN
  IF op.result.kind = "null"
    THEN /\ resp' = Response(404, "")
         /\ UNCHANGED <<incrs, sessions, mutated, notified>>
  ELSE IF req[1] \in {"task", "notes"}
    THEN Succeed(p, RequestOf(req), op.result.job)
  ELSE IF req[1] \in {"create", "delete"}
    THEN /\ incrs' = emitOwnerUpdated(p, req[2])
         /\ resp' = Managed(IF req[1] = "create" THEN 201 ELSE 200, req,
                            IF req[1] = "create"
                            THEN <<JobSummary(op.result.job)>> ELSE <<>>)
         /\ UNCHANGED <<sessions, mutated, notified>>
  ELSE /\ resp' = Managed(200, req, <<>>)
       /\ UNCHANGED <<incrs, sessions, mutated, notified>>

\* writeStore(current) completes: the file holds what the operation read,
\* with its change, and the handler goes on
WriteStore(p) ==
  /\ writeQueue[p] # <<>>
  /\ Head(writeQueue[p]).phase = "read"
  /\ LET op == Head(writeQueue[p]) IN
     /\ owners' = op.result.store.owners
     /\ templates' = op.result.store.templates
     /\ jobs' = op.result.store.jobs
     /\ Continue(p, op)
     /\ Settle(p, op, op.result.kind, resp'.status)
  /\ UNCHANGED <<now, redis, redisUp, upstashRedis, emitter, settled, page>>

\* what is left of the file when fs.writeFile rejects: the call opens the
\* file for writing, which empties it, and then writes; it may fail at
\* either point
WriteDamage == {"untouched", "truncated"}

\* writeStore(current) rejects: the operation rejects, the handler answers
\* 400.  A file cut short is one JSON.parse rejects, which every reader
\* takes for the empty store
WriteReject(p, damage) ==
  /\ writeQueue[p] # <<>>
  /\ Head(writeQueue[p]).phase = "read"
  /\ Settle(p, Head(writeQueue[p]), "rejected", 400)
  /\ resp' = Response(400, "")
  /\ IF damage = "truncated"
     THEN /\ owners' = EMPTY_STORE.owners
          /\ templates' = EMPTY_STORE.templates
          /\ jobs' = EMPTY_STORE.jobs
     ELSE UNCHANGED <<owners, templates, jobs>>
  /\ UNCHANGED <<now, redis, redisUp, upstashRedis, incrs, emitter, sessions,
                 mutated, notified, settled, page>>

\* The write lock of two processes on one store file, under the
\* technician's requests
NextStore ==
  \/ \E p \in Procs, req \in QueuedRequestInputs : Enqueue(p, req)
  \/ \E p \in Procs : ReadStore(p)
  \/ \E p \in Procs : WriteStore(p)
  \/ Counter

\* The write lock of one process whose writes may fail
NextQueue ==
  \/ \E req \in QueuedRequestInputs : Enqueue("pA", req)
  \/ ReadStore("pA")
  \/ WriteStore("pA")
  \/ \E damage \in WriteDamage : WriteReject("pA", damage)
  \/ Counter

\* the manager's requests and one of the technician's
OfficeRequestInputs ==
  ManagerRequestInputs \cup {<<"task", technicianTokenOf("j1"), "a1", "true">>}

\* The manager's API in two processes
NextManager ==
  \/ \E p \in Procs, req \in OfficeRequestInputs : Enqueue(p, req)
  \/ \E p \in Procs : ReadStore(p)
  \/ \E p \in Procs : WriteStore(p)
  \/ Counter

StoreSpec == Init /\ [][NextStore]_vars

QueueSpec == Init /\ [][NextQueue]_vars

ManagerSpec == Init /\ [][NextManager]_vars

\* ---------------------------------------------------- two connections
\* two viewers of the same job, or of the same owner, at once
PairIds == {1, 2}

InitPair ==
  /\ InitStore
  /\ sessions = [s \in PairIds |-> FreeSession]
  /\ upstashRedis = [p \in Procs |-> TRUE]

\* the job stream requests of the customer and of the technician of job j1
PairRequestInputs ==
  {<<"j1", "customer", customerTokenOf("j1")>>,
   <<"j1", "technician", technicianTokenOf("j1")>>}

\* Two connections to process pA, both to the stream of job j1 or of owner
\* o1 or one to each, while the technician of j1 works through either process
NextPair ==
  \/ \E p \in Procs : PatchTask(p, technicianTokenOf("j1"), "a1", "undefined")
  \/ \E s \in PairIds, req \in PairRequestInputs :
       JobOpen(s, "pA", req[1], req[2], req[3])
  \/ \E s \in PairIds : OwnerOpen(s, "pA", "o1", "ann@x.io")
  \/ \E s \in PairIds : JobPing(s) \/ JobCancel(s)
  \/ \E s \in PairIds :
       \/ ReadServe(s)
       \/ OwnerStart(s)
       \/ PollTick(s)
       \/ PollReturn(s)
       \/ OwnerPing(s)
       \/ OwnerCancel(s)
  \/ Counter

PairFairness ==
  /\ CounterFairness
  /\ \A s \in PairIds :
       /\ WF_vars(ReadServe(s))
       /\ WF_vars(OwnerStart(s))
       /\ WF_vars(PollTick(s))
       /\ WF_vars(PollReturn(s))
       /\ WF_vars(JobPing(s))
       /\ WF_vars(OwnerPing(s))

PairSpec == InitPair /\ [][NextPair]_vars /\ PairFairness

\* ---------------------------------------------------- the manager's page
\* ManagerActiveJobsPage in a browser: its state jobs, the requests of
\* loadJobs in flight, the messages of its EventSource handled so far and
\* the timer of refreshTimerRef.  The owner stream the page opens is the
\* session PageSession, of the signed-in manager of the owner.

PageSession == 1
PageOwner == "o1"
PageClerk == "ann@x.io"

\* the order of the jobs array in the initial store
InitialOrder == <<"j1", "j2">>

\* Whether job a comes before job b in the jobs array of a store that has
\* both.  The jobs of the initial store come first, in their order;
\* createJob pushes at the end, so the created jobs follow in the order of
\* their creation, which is that of their updatedAt (no request of the
\* model updates a created job)
Precedes(a, b) ==
  IF a.id \in JobIds /\ b.id \in JobIds
  THEN \E x, y \in DOMAIN InitialOrder :
         x < y /\ InitialOrder[x] = a.id /\ InitialOrder[y] = b.id
  ELSE IF a.id \in JobIds THEN TRUE
  ELSE IF b.id \in JobIds THEN FALSE
  ELSE a.updatedAt < b.updatedAt

\* store.jobs as the array it is
JobsArray(storeJobs) ==
  LET position(j) ==
        1 + Cardinality({k \in DOMAIN storeJobs : Precedes(storeJobs[k], storeJobs[j])})
  IN [i \in 1..Cardinality(DOMAIN storeJobs) |->
        storeJobs[CHOOSE j \in DOMAIN storeJobs : position(j) = i]]

\* where Array.prototype.sort (stable) puts a job among those sorted before
\* it: behind every job that is not older
InsertByUpdatedAt(sorted, item) ==
  LET k == Cardinality({i \in DOMAIN sorted : sorted[i].updatedAt >= item.updatedAt})
  IN SubSeq(sorted, 1, k) \o <<item>> \o SubSeq(sorted, k + 1, Len(sorted))

RECURSIVE sortByUpdatedAtDesc(_)
\* sortByUpdatedAtDesc: a sorted copy, the most recently updated first
sortByUpdatedAtDesc(items) ==
  IF items = <<>> THEN <<>>
  ELSE InsertByUpdatedAt(sortByUpdatedAtDesc(SubSeq(items, 1, Len(items) - 1)),
                         items[Len(items)])

\* listJobs: the owner's jobs of the store read now, sorted
listJobs(ownerId) ==
  sortByUpdatedAtDesc(SelectSeq(JobsArray(readStore.jobs),
                                LAMBDA job : job.ownerId = ownerId))

\* GET /api/jobs?ownerId= for the signed-in user: the status and the
\* summaries of the owner's jobs
ListResponse(ownerId, clerk) ==
  LET manager == authorizeOwnerAccess(ownerId, clerk)
      list == listJobs(ownerId)
  IN IF ownerId = "" THEN [ok |-> FALSE, jobs |-> <<>>]
     ELSE IF manager.status # 200 THEN [ok |-> FALSE, jobs |-> <<>>]
     ELSE [ok |-> TRUE, jobs |-> [i \in DOMAIN list |-> JobSummary(list[i])]]

\* loadJobs up to its await: the request leaves
StartFetch(fetches) == Append(fetches, [state |-> "sent", ok |-> FALSE, jobs |-> <<>>])

\* the page is opened for PageOwner: the first effect calls loadJobs, the
\* second makes the EventSource
PageMount ==
  /\ page.state = "unmounted"
  /\ page' = [NoPage EXCEPT !.state = "mounted", !.ownerId = PageOwner,
                            !.fetches = StartFetch(<<>>)]
  /\ UNCHANGED <<owners, jobs, templates, now, redis, redisUp, upstashRedis,
                 incrs, emitter, sessions, resp, mutated, notified, settled,
                 writeQueue, results>>

\* the request of the EventSource reaches the owner stream route
PageStream ==
  /\ page.state = "mounted"
  /\ OwnerOpen(PageSession, "pA", page.ownerId, PageClerk)

\* a request of loadJobs is handled: the answer leaves with the list as the
\* store has it now
FetchServe(i) ==
  /\ i \in DOMAIN page.fetches
  /\ page.fetches[i].state = "sent"
  /\ LET response == ListResponse(page.ownerId, PageClerk)
     IN page' = [page EXCEPT !.fetches[i] =
                   [state |-> "served", ok |-> response.ok, jobs |-> response.jobs]]
  /\ UNCHANGED <<owners, jobs, templates, now, redis, redisUp, upstashRedis,
                 incrs, emitter, sessions, resp, mutated, notified, settled,
                 writeQueue, results>>

\* an answer reaches loadJobs: setJobs with its list, or setError
FetchReturn(i) ==
  /\ i \in DOMAIN page.fetches
  /\ page.fetches[i].state = "served"
  /\ page' = [page EXCEPT
       !.jobs = IF page.fetches[i].ok THEN page.fetches[i].jobs ELSE @,
       !.fetches = SubSeq(@, 1, i - 1) \o SubSeq(@, i + 1, Len(@))]
  /\ UNCHANGED <<owners, jobs, templates, now, redis, redisUp, upstashRedis,
                 incrs, emitter, sessions, resp, mutated, notified, settled,
                 writeQueue, results>>

\* source.onmessage for the next message of the stream: anything but
\* owner.updated is dropped, owner.updated clears the timer and sets it
PageMessage ==
  /\ page.state = "mounted"
  /\ page.handled < Len(sessions[PageSession].out)
  /\ LET payload == sessions[PageSession].out[page.handled + 1]
     IN page' = [page EXCEPT
          !.handled = @ + 1,
          !.timer = IF payload.type # "owner.updated" THEN @ ELSE TRUE]
  /\ UNCHANGED <<owners, jobs, templates, now, redis, redisUp, upstashRedis,
                 incrs, emitter, sessions, resp, mutated, notified, settled,
                 writeQueue, results>>

\* the timer fires after its 150 ms: loadJobs(true)
PageTimer ==
  /\ page.timer
  /\ page' = [page EXCEPT !.timer = FALSE, !.fetches = StartFetch(@)]
  /\ UNCHANGED <<owners, jobs, templates, now, redis, redisUp, upstashRedis,
                 incrs, emitter, sessions, resp, mutated, notified, settled,
                 writeQueue, results>>

\* what happens to the jobs of the owner while the page is watched: a job
\* is created, one is deleted, a task is completed
PageRequestInputs ==
  {<<"create", PageOwner, PageClerk, "Fix sink">>,
   <<"delete", PageOwner, PageClerk, "j1">>,
   <<"task", technicianTokenOf("j2"), "b1", "true">>}

\* The page with its stream, which stays open, on process pA; the requests
\* that change the owner's jobs are handled by process pB
NextPage ==
  \/ PageMount
  \/ PageStream
  \/ \E i \in 1..MaxPatches + 1 : FetchServe(i) \/ FetchReturn(i)
  \/ PageMessage
  \/ PageTimer
  \/ ReadServe(PageSession)
  \/ OwnerStart(PageSession)
  \/ PollTick(PageSession)
  \/ PollReturn(PageSession)
  \/ \E req \in PageRequestInputs : Enqueue("pB", req)
  \/ ReadStore("pB")
  \/ WriteStore("pB")
  \/ Counter

PageSpec == Init /\ [][NextPage]_vars

\* ------------------------------------------------------------ properties
\* getJobUpdateSequence / getOwnerUpdateSequence as of now
Sequence(key) == SequenceOf(RedisGet(key))

\* the increments of a key asked for so far that did not fail: completed or
\* still in flight
Issued(key) == settled[key] + incrs[key]

\* the events of one type a session has sent
Sent(s, type) ==
  Cardinality({i \in DOMAIN sessions[s].out : sessions[s].out[i].type = type})

\* the successful mutations of the jobs of an owner
OwnerMutated(o) ==
  LET of == {j \in JobIds : jobs[j].ownerId = o}
      sum[S \in SUBSET of] ==
        IF S = {} THEN 0
        ELSE LET j == CHOOSE x \in S : TRUE IN mutated[j] + sum[S \ {j}]
  IN sum[of]

\* C1: every mutation of a job notified while a job stream session of that
\* job is open is eventually followed by a job.updated snapshot at or after
\* that mutation on that session, whichever process handled the mutation
\* (unless the session is closed first).
C1_JobStreamDeliversEveryMutation ==
  \A s \in SessIds : \A n \in 1..MaxPatches :
    (/\ sessions[s].kind = "job"
     /\ sessions[s].state = "open"
     /\ notified[sessions[s].target] >= n)
      ~> (sessions[s].state # "open" \/ sessions[s].seen >= n)

\* C2: a closed stream session, job or owner, has both timers stopped and is
\* no listener, and no step adds a data event or a keep-alive line to it.
C2_NoLatePush ==
  [][\A s \in SessIds :
       sessions[s].state = "closed" =>
         /\ ~sessions[s].heartbeat
         /\ ~sessions[s].poller
         /\ \A p \in Procs, j \in JobIdInputs : s \notin Listeners(p, j)
         /\ sessions'[s].state = "closed"
         /\ sessions'[s].out = sessions[s].out
         /\ sessions'[s].pings = sessions[s].pings]_vars

\* a closed owner session whose poll, started before the close, returned an
\* advanced sequence after it: lastSequence moved and nothing was pushed
C2_PollCompletedAfterClose ==
  \E s \in SessIds :
    /\ sessions[s].kind = "owner"
    /\ sessions[s].state = "closed"
    /\ sessions[s].lastSequence > sessions[s].initialSequence
    /\ Sent(s, "owner.updated") = 0

\* what C3 requires of a job stream request
C3_Authorized(jobId, role, token) ==
  /\ role \in {"customer", "technician"}
  /\ jobId \in DOMAIN jobs
  /\ token = IF role = "customer" THEN jobs[jobId].customerToken
             ELSE jobs[jobId].technicianToken

\* C3: a job stream request is answered with a stream exactly when the role
\* is customer or technician, the job exists and the token is that job's
\* token for that role; any other request gets 401 or 404, sends no event,
\* arms no heartbeat and subscribes nothing.
C3_JobStreamAuthorization ==
  /\ \A jobId \in JobIdInputs, role \in RoleInputs, token \in TokenInputs :
       /\ JobStreamStatus(jobId, role, token) \in {200, 401, 404}
       /\ JobStreamStatus(jobId, role, token) = 200
            <=> C3_Authorized(jobId, role, token)
  /\ \A s \in SessIds :
       sessions[s].kind = "job" =>
         IF C3_Authorized(sessions[s].target, sessions[s].role, sessions[s].token)
         THEN /\ sessions[s].state \in {"open", "closed"}
              /\ sessions[s].status = 200
              /\ Sent(s, "connected") = 1
         ELSE /\ sessions[s].state = "rejected"
              /\ sessions[s].status \in {401, 404}
              /\ sessions[s].out = <<>>
              /\ sessions[s].pings = 0
              /\ ~sessions[s].heartbeat
              /\ \A p \in Procs, j \in JobIdInputs : s \notin Listeners(p, j)

\* a technician's request for job j1 with the customer token of j1 was
\* refused
C3_OtherRolesTokenRefused ==
  \E s \in SessIds :
    /\ sessions[s].kind = "job"
    /\ sessions[s].state = "rejected"
    /\ sessions[s].status = 401
    /\ sessions[s].target = "j1"
    /\ sessions[s].role = "technician"
    /\ sessions[s].token = jobs["j1"].customerToken

\* C4: an open owner stream session never pushes more owner.updated signals
\* than the owner's counter advanced since the session read it, and when the
\* counter stands one above that first read (one mutation of one of the
\* owner's jobs) the session gets to have pushed exactly one.
C4_OwnerStreamExactlyOne ==
  /\ [](\A s \in SessIds :
          sessions[s].kind = "owner" /\ sessions[s].state \in {"open", "closed"} =>
            /\ Sent(s, "owner.updated")
                 <= Sequence(ownerSequenceKey(sessions[s].target))
                      - sessions[s].initialSequence
            /\ Sent(s, "owner.updated")
                 <= sessions[s].lastSequence - sessions[s].initialSequence)
  /\ \A s \in SessIds :
       (/\ sessions[s].kind = "owner"
        /\ sessions[s].state = "open"
        /\ Sequence(ownerSequenceKey(sessions[s].target))
             = sessions[s].initialSequence + 1)
         ~> \/ sessions[s].state # "open"
            \/ Sent(s, "owner.updated") = 1
            \/ Sequence(ownerSequenceKey(sessions[s].target))
                 # sessions[s].initialSequence + 1

\* an open owner session of an owner with two jobs has pushed one
\* owner.updated for the one mutation since it connected
C4_OneSignalForOneMutation ==
  \E s \in SessIds :
    /\ sessions[s].kind = "owner"
    /\ sessions[s].state = "open"
    /\ Cardinality({j \in JobIds : jobs[j].ownerId = sessions[s].target}) = 2
    /\ sessions[s].initialSequence = 0
    /\ OwnerMutated(sessions[s].target) = 1
    /\ Sequence(ownerSequenceKey(sessions[s].target)) = 1
    /\ Sent(s, "owner.updated") = 1

\* what C5 requires of an owner stream request: a signed-in user with an
\* e-mail address, which is the address of the existing owner record
C5_Authorized(ownerId, clerk) ==
  /\ clerk \notin {"anonymous", ""}
  /\ ownerId \in DOMAIN owners
  /\ ToLower(clerk) = ToLower(owners[ownerId].email)

\* C5: an owner stream request is authorized exactly when the signed-in
\* manager's e-mail address is that of the existing owner record; any other
\* request gets 401, 403 or 404, sends no event, starts no counter read and
\* arms no timer.
C5_OwnerStreamAuthorization ==
  /\ \A ownerId \in OwnerIdInputs, clerk \in ClerkInputs :
       /\ authorizeOwnerAccess(ownerId, clerk).status \in {200, 401, 403, 404}
       /\ authorizeOwnerAccess(ownerId, clerk).status = 200
            <=> C5_Authorized(ownerId, clerk)
  /\ \A s \in SessIds :
       sessions[s].kind = "owner" =>
         IF C5_Authorized(sessions[s].target, sessions[s].principal)
         THEN /\ sessions[s].state \in {"connecting", "open", "closed"}
              /\ sessions[s].status = 200
              /\ sessions[s].token = ToLower(owners[sessions[s].target].email)
         ELSE /\ sessions[s].state = "rejected"
              /\ sessions[s].status \in {401, 403, 404}
              /\ sessions[s].out = <<>>
              /\ sessions[s].pings = 0
              /\ sessions[s].read = "none"
              /\ ~sessions[s].heartbeat
              /\ ~sessions[s].poller
              /\ ~sessions[s].polling

\* the manager of owner o2 asked for the stream of owner o1 and was refused
C5_OtherManagerRefused ==
  \E s \in SessIds :
    /\ sessions[s].kind = "owner"
    /\ sessions[s].state = "rejected"
    /\ sessions[s].status = 403
    /\ sessions[s].target = "o1"
    /\ ToLower(sessions[s].principal) = owners["o2"].email

\* C6: the value a read of a counter returns is the number of increments of
\* its key that completed, no step lowers it, and a read a session is served
\* is no lower than any value the session read before.
C6_CounterMonotonic ==
  /\ [](\A key \in Keys : Sequence(key) = settled[key])
  /\ [](\A s \in SessIds :
          sessions[s].read = "served" =>
            /\ sessions[s].readValue >= sessions[s].lastSequence
            /\ sessions[s].readValue >= sessions[s].initialSequence)
  /\ [][\A key \in Keys : Sequence(key)' >= Sequence(key)]_vars

\* two increments of one key completed and a read of it returns 2
C6_TwoIncrementsCompleted ==
  \E key \in Keys : settled[key] = 2 /\ Sequence(key) = 2

\* C7: the n-th successful mutation of a job is eventually followed by the
\* n-th increment of the job's counter, and the n-th successful mutation
\* among the jobs of an owner by the n-th increment of the owner's counter.
C7_MutationEventuallyCounted ==
  /\ \A j \in JobIds : \A n \in 1..MaxPatches :
       (mutated[j] >= n) ~> (Sequence(sequenceKey(j)) >= n)
  /\ \A o \in OwnerIds : \A n \in 1..MaxPatches :
       (OwnerMutated(o) >= n) ~> (Sequence(ownerSequenceKey(o)) >= n)

\* job j1 was mutated once and both counters stand at 1
C7_MutationCounted ==
  /\ mutated["j1"] = 1
  /\ mutated["j2"] = 0
  /\ Sequence(sequenceKey("j1")) = 1
  /\ Sequence(ownerSequenceKey(jobs["j1"].ownerId)) = 1

\* C8: a step is a successful mutation request of at most one job; it calls
\* the notifier once and asks for one increment of the job's key and one of
\* the owner's key, and no other step asks for any, so the increments asked
\* for equal the successful mutations.
C8_ExactlyOneNotification ==
  /\ [](/\ \A j \in JobIds :
             notified[j] = mutated[j] /\ Issued(sequenceKey(j)) = mutated[j]
        /\ \A o \in OwnerIds : Issued(ownerSequenceKey(o)) = OwnerMutated(o))
  /\ [][/\ \A j \in JobIds :
             /\ mutated'[j] \in {mutated[j], mutated[j] + 1}
             /\ notified'[j] - notified[j] = mutated'[j] - mutated[j]
             /\ Issued(sequenceKey(j))' - Issued(sequenceKey(j))
                  = mutated'[j] - mutated[j]
        /\ Cardinality({j \in JobIds : mutated'[j] # mutated[j]}) <= 1
        /\ \A o \in OwnerIds :
             Issued(ownerSequenceKey(o))' - Issued(ownerSequenceKey(o))
               = OwnerMutated(o)' - OwnerMutated(o)]_vars

\* one mark-all request completed both tasks of j1: one notification, one
\* increment of each key
C8_MarkAllCountedOnce ==
  /\ mutated["j1"] = 1
  /\ mutated["j2"] = 0
  /\ \A i \in DOMAIN jobs["j1"].tasks : jobs["j1"].tasks[i].completed
  /\ notified["j1"] = 1
  /\ Issued(sequenceKey("j1")) = 1
  /\ Issued(ownerSequenceKey(jobs["j1"].ownerId)) = 1

\* C9: whatever the state of the counter store, a PATCH request answers 200
\* exactly when the store wrote the job, the answer leaves while the
\* increments it started are still in flight, and no later step of an
\* increment, completing or failing, touches the answer or the job.
C9_NotifierNeverAffectsCaller ==
  [][IF resp'.n = resp.n + 1
     THEN /\ resp'.status = 200 <=> jobs' # jobs
          /\ resp'.status = 200 <=>
               \E j \in JobIds : /\ resp'.jobId = j
                                 /\ mutated'[j] = mutated[j] + 1
                                 /\ notified'[j] = notified[j] + 1
          /\ settled' = settled /\ redis' = redis
          /\ \A key \in Keys : incrs'[key] >= incrs[key]
          /\ (resp'.status = 200 /\ \A p \in Procs : upstashRedis[p]) =>
               \E j \in JobIds :
                 /\ incrs'[sequenceKey(j)] = incrs[sequenceKey(j)] + 1
                 /\ incrs'[ownerSequenceKey(jobs[j].ownerId)]
                      = incrs[ownerSequenceKey(jobs[j].ownerId)] + 1
     ELSE resp' = resp /\ jobs' = jobs /\ mutated' = mutated]_vars

\* a mutation was answered 200 although the store is configured and both of
\* its increments failed
C9_AnsweredDespiteFailedIncrements ==
  /\ resp.status = 200
  /\ resp.jobId = "j1"
  /\ mutated["j1"] = 1
  /\ \A p \in Procs : upstashRedis[p]
  /\ \A key \in Keys : incrs[key] = 0 /\ settled[key] = 0

\* C10: no read of a counter ends in an error, whatever the state of the
\* counter store: each yields a non-negative integer, which is 0 when the
\* store is not configured.
C10_CounterReadNeverFails ==
  \A s \in SessIds :
    /\ sessions[s].read # "rejected"
    /\ sessions[s].status # 500
    /\ sessions[s].readValue \in Nat
    /\ sessions[s].lastSequence \in Nat
    /\ (sessions[s].kind = "owner" /\ sessions[s].status = 200
          /\ ~upstashRedis[sessions[s].proc]) => sessions[s].lastSequence = 0

\* C11: on every authorized job stream the first data event is the one
\* connected event, carrying the projection of the job as read when the
\* stream was opened; every later data event is a job.updated carrying the
\* projection of the job as just written; the events sent are never changed.
C11_JobStreamEventOrder ==
  [][\A s \in SessIds :
       LET before == sessions[s]
           after == sessions'[s]
           sent == Len(before.out)
       IN after.kind = "job" /\ after.status = 200 =>
            /\ Len(after.out) >= 1
            /\ after.out[1].type = "connected"
            /\ \A i \in 2..Len(after.out) : after.out[i].type = "job.updated"
            /\ before.state = "free" =>
                 after.out = <<[type |-> "connected",
                                job |-> toJobSession(jobs[after.target])]>>
            /\ before.state # "free" =>
                 \/ after.out = before.out
                 \/ /\ jobs'[after.target] # jobs[after.target]
                    /\ after.out = Append(before.out,
                          [type |-> "job.updated",
                           job |-> toJobSession(jobs'[after.target])])]_vars

\* C11 witness: a job stream that sent connected and then two job.updated
C11_ConnectedThenUpdates ==
  \E s \in SessIds :
    /\ sessions[s].kind = "job"
    /\ Len(sessions[s].out) = 3
    /\ sessions[s].out[1].type = "connected"
    /\ sessions[s].out[3].type = "job.updated"
    /\ sessions[s].out[3].job # sessions[s].out[2].job

\* C12: for every job, the snapshot has completedTasks <= totalTasks,
\* progressPercent = 0 when there are no tasks, and otherwise progressPercent
\* is 100 * completedTasks / totalTasks rounded to the nearest integer, a
\* half going up (so it lies in 0..100).
C12_ProgressRoundedHalfUp ==
  \A j \in DOMAIN jobs :
    LET snapshot == toJobSession(jobs[j])
        c == snapshot.completedTasks
        t == snapshot.totalTasks
    IN /\ t = Len(jobs[j].tasks)
       /\ c <= t
       /\ snapshot.progressPercent \in 0..100
       /\ t = 0 => snapshot.progressPercent = 0
       /\ t > 0 => /\ 2 * t * snapshot.progressPercent <= 200 * c + t
                   /\ 200 * c + t < 2 * t * (snapshot.progressPercent + 1)

\* the job has a task and every task of it is completed
EveryTaskCompleted(job) ==
  Len(job.tasks) >= 1 /\ \A i \in DOMAIN job.tasks : job.tasks[i].completed

\* C13: a snapshot has allCompleted exactly when the job has a task and all
\* its tasks are completed (never for a job without tasks); the answer to a
\* successful mark-all(true) on a job with a task, and every snapshot taken
\* of the job as that request left it, has allCompleted and 100 percent.
C13_AllCompleted ==
  /\ \A j \in DOMAIN jobs :
       /\ toJobSession(jobs[j]).allCompleted <=> EveryTaskCompleted(jobs[j])
       /\ Len(jobs[j].tasks) = 0 => ~toJobSession(jobs[j]).allCompleted
  /\ resp.status = 200 =>
       LET job == jobs[resp.jobId]
           snapshot == resp.job[1]
       IN /\ resp.request = <<"tasks", "true">> /\ Len(job.tasks) >= 1 =>
               /\ snapshot.allCompleted /\ snapshot.progressPercent = 100
               /\ EveryTaskCompleted(job)
          /\ resp.request[1] = "session" /\ EveryTaskCompleted(job) =>
               snapshot.allCompleted /\ snapshot.progressPercent = 100

\* C13 witness: the snapshot asked for after mark-all(true) on the largest
\* job
C13_SnapshotAfterMarkAll ==
  /\ resp.status = 200
  /\ resp.request[1] = "session"
  /\ resp.jobId = "j1"
  /\ mutated["j1"] = 1
  /\ jobs["j1"].noteEntries = <<>>
  /\ Len(jobs["j1"].tasks) = MaxTasks
  /\ resp.job[1].allCompleted

\* shown is stored in another order: most recent first, entries of one
\* createdAt in their stored order, nothing added and nothing dropped
SortedStably(stored, shown) ==
  /\ Len(shown) = Len(stored)
  /\ \A i \in DOMAIN stored : \E k \in DOMAIN shown : shown[k] = stored[i]
  /\ \A k, l \in DOMAIN shown :
       k < l =>
         /\ shown[k].createdAt >= shown[l].createdAt
         /\ shown[k].createdAt = shown[l].createdAt =>
              \E i, m \in DOMAIN stored :
                i < m /\ stored[i] = shown[k] /\ stored[m] = shown[l]

\* C14: the noteEntries of every snapshot, taken now or sent in the last
\* answer, are the job's notes sorted by createdAt descending, notes of equal
\* createdAt in the order the job record has them, none added, none dropped.
C14_SnapshotNoteOrder ==
  /\ \A j \in DOMAIN jobs :
       SortedStably(jobs[j].noteEntries, toJobSession(jobs[j]).noteEntries)
  /\ resp.status = 200 =>
       SortedStably(jobs[resp.jobId].noteEntries, resp.job[1].noteEntries)

\* C14 witness: a snapshot sent of four notes, one of them added by a
\* request, two of one createdAt, whose order is not the stored one
C14_ReorderedWithTie ==
  /\ resp.status = 200
  /\ mutated[resp.jobId] >= 1
  /\ Len(resp.job[1].noteEntries) = 4
  /\ resp.job[1].noteEntries # jobs[resp.jobId].noteEntries
  /\ \E k \in 1..3 : resp.job[1].noteEntries[k].createdAt
                         = resp.job[1].noteEntries[k + 1].createdAt

C16_OnePollInFlight ==
  [][\A s \in SessIds :
       LET before == sessions[s]
           after == sessions'[s]
       IN /\ after.kind = "owner" /\ after.state \in {"open", "closed"} =>
               (after.polling <=> after.read \in {"sent", "served"})
          /\ before.kind = "owner" /\ before.polling =>
               /\ before.read = "served" => after.read \in {"served", "none"}
               /\ before.read = "sent" => after.read \in {"sent", "served"}
               /\ Len(after.out) <= Len(before.out) + 1
               /\ after.polling =>
                    /\ after.out = before.out
                    /\ after.lastSequence = before.lastSequence
                    /\ after.readValue = before.readValue
                         \/ before.read = "sent"]_vars

\* C16 witness: an open session whose poll is outstanding, holding a value
\* that will be pushed, while the timer keeps ticking
C16_TickDuringPoll ==
  \E s \in SessIds :
    /\ sessions[s].kind = "owner"
    /\ sessions[s].state = "open"
    /\ sessions[s].poller
    /\ sessions[s].polling
    /\ sessions[s].read = "served"
    /\ sessions[s].readValue > sessions[s].lastSequence

\* C17: the step that ends a poll which read c: if c > lastSequence,
\* lastSequence becomes c and, the session being open, exactly one
\* owner.updated is pushed; else nothing is pushed and lastSequence stays.
\* lastSequence never decreases, and a session never has pushed more
\* updates than the counter was incremented since its first read.
C17_PollStep ==
  [][\A s \in SessIds :
       LET before == sessions[s]
           after == sessions'[s]
           c == before.readValue
       IN /\ before.kind = "owner" /\ before.polling /\ ~after.polling =>
               IF c > before.lastSequence
               THEN /\ after.lastSequence = c
                    /\ after.out =
                         IF before.closed THEN before.out
                         ELSE Append(before.out,
                                     [type |-> "owner.updated",
                                      ownerId |-> before.target])
               ELSE /\ after.lastSequence = before.lastSequence
                    /\ after.out = before.out
          /\ before.kind = "owner" /\ before.state \in {"open", "closed"} =>
               after.lastSequence >= before.lastSequence
          /\ after.kind = "owner" /\ after.state \in {"open", "closed"} =>
               /\ Sent(s, "owner.updated")'
                    <= after.lastSequence - after.initialSequence
               /\ \A o \in OwnerIds :
                    after.target = o =>
                      after.lastSequence <= Sequence(ownerSequenceKey(o))']_vars

\* C17 witness: a session that pushed two updates, one for each of two
\* polls that read an advance
C17_TwoPollsPushed ==
  \E s \in SessIds :
    /\ sessions[s].kind = "owner"
    /\ sessions[s].state = "open"
    /\ ~sessions[s].polling
    /\ Sent(s, "owner.updated") = 2
    /\ sessions[s].lastSequence = sessions[s].initialSequence + 2

\* C18: a poll whose counter read fails ends within its tick with nothing
\* thrown: the session stays open with its timers armed, nothing is pushed,
\* lastSequence is unchanged and the in-flight flag is cleared.
C18_PollFailureCaught ==
  [][\A s \in SessIds :
       LET before == sessions[s]
           after == sessions'[s]
       IN (/\ before.kind = "owner"
           /\ before.state = "open"
           /\ before.polling
           /\ before.read = "sent"
           /\ ~after.polling) =>
            /\ after.read = "none"
            /\ after.state = "open"
            /\ after.poller /\ after.heartbeat
            /\ after.out = before.out
            /\ after.lastSequence = before.lastSequence]_vars

\* C19: a poll of an open session that finds the counter two or more past
\* lastSequence pushes a single owner.updated and records the value it read;
\* a poll that finds the counter where lastSequence is pushes nothing.
C19_LatestWins ==
  [][\A s \in SessIds :
       LET before == sessions[s]
           after == sessions'[s]
           c == before.readValue
       IN (/\ before.kind = "owner"
           /\ before.state = "open"
           /\ before.polling
           /\ ~after.polling) =>
            /\ c >= before.lastSequence + 2 =>
                 /\ Len(after.out) = Len(before.out) + 1
                 /\ after.out[Len(after.out)].type = "owner.updated"
                 /\ SubSeq(after.out, 1, Len(before.out)) = before.out
                 /\ after.lastSequence = c
            /\ c = before.lastSequence => after.out = before.out]_vars

\* C19 witness: one update pushed by a session whose counter advanced by
\* two, and a later poll of it that read the same value outstanding
C19_TwoMutationsOnePush ==
  \E s \in SessIds :
    /\ sessions[s].kind = "owner"
    /\ sessions[s].state = "open"
    /\ Sent(s, "owner.updated") = 1
    /\ sessions[s].lastSequence = sessions[s].initialSequence + 2
    /\ OwnerMutated(sessions[s].target) = 2
    /\ sessions[s].polling
    /\ sessions[s].read = "served"
    /\ sessions[s].readValue = sessions[s].lastSequence

C21_SessionsReadOnly ==
  [][(sessions' # sessions /\ resp' = resp) =>
       /\ jobs' = jobs
       /\ owners' = owners
       /\ templates' = templates
       /\ redis' = redis
       /\ incrs' = incrs]_vars

\* C21 witness: sessions that ran their course on a job that was mutated: an
\* owner session authorized, started, polled, pushed and closed, or a job
\* session that sent a keep-alive line after its initial push
C21_SessionRanItsCourse ==
  \E s \in SessIds :
    /\ mutated["j1"] > 0
    /\ \/ /\ sessions[s].kind = "owner"
          /\ sessions[s].state = "closed"
          /\ Sent(s, "owner.updated") > 0
       \/ /\ sessions[s].kind = "job"
          /\ sessions[s].status = 200
          /\ sessions[s].pings = 1

\* the operations withWriteLock resolved with a job
Succeeded == {i \in DOMAIN results : results[i].kind = "ok"}

\* the operation a step settles, if it settles one
SettledBy(step) == IF step THEN {results'[Len(results')]} ELSE {}

\* C25: store mutations are serialized with no lost update: of the
\* operations submitted concurrently each reads the store as the one before
\* it left it, so the store reflects every successful mutation: a task a
\* request completed is completed, and a job has one note entry for each
\* note added to it.
C25_NoLostUpdate ==
  /\ \A i \in Succeeded :
       results[i].request[1] = "task" =>
         \E j \in FindByTechnicianToken(jobs, results[i].request[2]) :
           \E k \in TaskIndex(jobs[j], results[i].request[3]) :
             jobs[j].tasks[k].completed
  /\ \A j \in DOMAIN jobs :
       Len(jobs[j].noteEntries) =
         Cardinality({i \in Succeeded :
                        /\ results[i].request[1] = "notes"
                        /\ results[i].request[2] = jobs[j].technicianToken})

\* C26: a technician mutation that fails (no job has the technician token
\* supplied, the task id is not one of the job's, or the note is empty once
\* trimmed) leaves the stored jobs unchanged, is answered with an error
\* response and increments no job or owner counter.
C26_RejectedMutationChangesNothing ==
  [][\A op \in SettledBy(Len(results') = Len(results) + 1) :
       op.kind \in {"null", "throw", "refused"} =>
         /\ jobs' = jobs
         /\ resp'.status \in {400, 404}
         /\ incrs' = incrs
         /\ redis' = redis]_vars

\* C27: a technician mutation called with token t modifies only the job
\* whose technicianToken is t, in its tasks or notes and its updatedAt;
\* every other job and every owner and template is unchanged, and a call
\* with a job's customerToken modifies no job.
C27_MutationScope ==
  [][\A op \in SettledBy(Len(results') = Len(results) + 1) :
       /\ owners' = owners
       /\ templates' = templates
       /\ DOMAIN jobs' = DOMAIN jobs
       /\ \A j \in DOMAIN jobs :
            \/ jobs'[j] = jobs[j]
            \/ /\ jobs[j].technicianToken = op.request[2]
               /\ jobs'[j] = [jobs[j] EXCEPT !.tasks = jobs'[j].tasks,
                                             !.noteEntries = jobs'[j].noteEntries,
                                             !.updatedAt = jobs'[j].updatedAt]
       /\ (\E j \in DOMAIN jobs : jobs[j].customerToken = op.request[2])
            => jobs' = jobs]_vars

\* C30: the write queue never wedges: an operation that fails, its updater
\* throwing or its write rejecting, fails for its caller alone and leaves
\* the store as it was before it, whatever is queued behind it.
C30_FailureLeavesStore ==
  [][\A op \in SettledBy(Len(results') = Len(results) + 1) :
       op.kind \in {"throw", "rejected"} =>
         /\ owners' = owners
         /\ templates' = templates
         /\ jobs' = jobs]_vars

\* C30, the queue after a failure: an operation ran to its end behind one
\* that had failed
C30_SettledBehindFailure ==
  \E i, k \in DOMAIN results :
    /\ i < k
    /\ results[i].kind \in {"throw", "rejected"}
    /\ results[i].request[1] = "task"
    /\ results[k].kind = "ok"

\* C24: capability tokens are never disclosed through snapshots: what
\* toJobSession returns for a job has no technicianToken and no
\* customerToken field and is the same whatever the two tokens of the job
\* are, so no connected or job.updated event of a job stream session shows
\* a viewer the token of the other role.
C24_NoTokenInSnapshots ==
  /\ \A j \in DOMAIN jobs : \A token \in {"", jobs[j].customerToken} :
       toJobSession([jobs[j] EXCEPT !.technicianToken = token,
                                    !.customerToken = jobs[j].technicianToken])
         = toJobSession(jobs[j])
  /\ \A s \in SessIds :
       sessions[s].kind = "job" =>
         \A i \in DOMAIN sessions[s].out :
           DOMAIN sessions[s].out[i].job
             \cap {"technicianToken", "customerToken"} = {}

\* C24 witness: a customer's session that was sent connected and then
\* job.updated
C24_CustomerSentSnapshots ==
  \E s \in SessIds :
    /\ sessions[s].kind = "job"
    /\ sessions[s].role = "customer"
    /\ Sent(s, "connected") = 1
    /\ Sent(s, "job.updated") > 0

\* C22, isolation: a step of one session (open, first read, poll, keep-alive,
\* close) changes the state of no other session and the subscription of no
\* other session.
C22_SessionsIsolated ==
  [][\A s, r \in PairIds :
       (s # r /\ resp' = resp /\ sessions'[s] # sessions[s]) =>
         /\ sessions'[r] = sessions[r]
         /\ \A p \in Procs, j \in JobIdInputs :
              r \in Listeners(p, j) <=> r \in Listeners(p, j)']_vars

\* the updates there were for the viewers of what session r views: the
\* mutations of its job notified, or the sequence of its owner's counter
C22_Updates(r) ==
  IF sessions[r].kind = "job" THEN notified[sessions[r].target]
  ELSE IF sessions[r].kind = "owner"
       THEN Sequence(ownerSequenceKey(sessions[r].target))
       ELSE 0

\* C22: session isolation: after one session on a job or an owner is
\* closed, every other open session on the same job or owner still receives
\* the updates that follow: a job session is sent job.updated for every
\* mutation of its job notified, an owner session comes to hold every
\* sequence its owner's counter reaches.
C22_OthersStillReceive ==
  \A s, r \in PairIds : \A n \in 1..MaxPatches :
    [](/\ sessions[s].state = "closed"
       /\ sessions[r].state = "open"
       /\ sessions[r].kind = sessions[s].kind
       /\ sessions[r].target = sessions[s].target
       /\ C22_Updates(r) = n - 1
       => [](C22_Updates(r) >= n
               => <>(\/ sessions[r].state # "open"
                     \/ sessions[r].kind = "job" /\ sessions[r].seen >= n
                     \/ sessions[r].kind = "owner"
                        /\ sessions[r].lastSequence >= n)))

\* C22, two sessions of a job of which one is closed and the other was sent
\* the update that followed
C22_SentAfterOtherClosed ==
  \E s, r \in PairIds :
    /\ sessions[s].kind = "job" /\ sessions[s].state = "closed"
    /\ sessions[r].kind = "job" /\ sessions[r].state = "open"
    /\ Len(sessions[s].out) = 1
    /\ Sent(r, "job.updated") = 1

\* the requests settled so far, with the given outcome, for the creation or
\* the deletion of a job of owner o
JobsManaged(o, kinds) ==
  {i \in DOMAIN results : /\ results[i].request[1] \in {"create", "delete"}
                          /\ results[i].request[2] = o
                          /\ results[i].kind \in kinds}

\* C28: a successful job creation or job deletion by an authorized manager
\* increments the counter of that owner once and no job counter; a creation
\* or deletion that is unauthorized, invalid or of a missing job increments
\* no counter.  On the step that answers the request the increments in
\* flight grow by one, of the owner's key, or stay as they are, and no
\* counter has moved for another reason: the increments asked for of an
\* owner's key are those of its jobs created and deleted and of the
\* technician's updates of its jobs.
C28_OwnerCounterOnCreateDelete ==
  [][/\ \A op \in SettledBy(Len(results') = Len(results) + 1) :
          op.request[1] \in {"create", "delete"} =>
            /\ redis' = redis
            /\ settled' = settled
            /\ IF op.kind = "ok"
               THEN /\ op.status \in {200, 201}
                    /\ incrs' = [incrs EXCEPT ![ownerSequenceKey(op.request[2])] = @ + 1]
               ELSE /\ op.status \in {400, 401, 403, 404}
                    /\ incrs' = incrs
     /\ \A o \in OwnerIds :
          Issued(ownerSequenceKey(o))' =
            Cardinality(JobsManaged(o, {"ok"}))'
              + Cardinality({i \in Succeeded' :
                               /\ results'[i].request[1] \in {"task", "notes"}
                               /\ InitialJob("j1").ownerId = o})]_vars

\* C28, its cases: a creation and a deletion have succeeded and the counter
\* of the owner has taken both increments
C28_CreatedAndDeleted ==
  /\ \E i, k \in JobsManaged("o1", {"ok"}) :
       results[i].request[1] = "create" /\ results[k].request[1] = "delete"
  /\ settled[ownerSequenceKey("o1")] = 2
  /\ \A key \in Keys : key # ownerSequenceKey("o1") => Issued(key) = 0

\* the jobs and the templates of the store that name owner o
OwnedBy(o, store) ==
  [jobs |-> {j \in DOMAIN store.jobs : store.jobs[j].ownerId = o},
   templates |-> {x \in DOMAIN store.templates : store.templates[x].ownerId = o}]

\* every job of the store whose owner is in the store has the business name
\* and phone of that owner, and no job or template is left of an owner that
\* is not in the store
DetailsInSync ==
  /\ \A j \in DOMAIN jobs :
       jobs[j].ownerId \in DOMAIN owners =>
         /\ jobs[j].businessName = owners[jobs[j].ownerId].businessName
         /\ jobs[j].businessPhone = owners[jobs[j].ownerId].businessPhone
  /\ \A o \in OwnerIds \ DOMAIN owners :
       OwnedBy(o, [jobs |-> jobs, templates |-> templates])
         = [jobs |-> {}, templates |-> {}]

\* C29: business details stay in sync: in every state of the store each job
\* whose owner exists carries the business name and phone the owner has in
\* that state, as createJob copied them and updateOwner rewrote them for
\* every job of the owner, and when deleteOwner has removed an owner no job
\* and no template with its ownerId remains.
C29_BusinessDetailsInSync ==
  [][/\ DetailsInSync
     /\ DetailsInSync'
     /\ \A op \in SettledBy(Len(results') = Len(results) + 1) :
          op.kind = "ok" =>
            /\ op.request[1] = "deleteOwner" =>
                 /\ op.request[2] \notin DOMAIN owners'
                 /\ OwnedBy(op.request[2], [jobs |-> jobs', templates |-> templates'])
                      = [jobs |-> {}, templates |-> {}]
            /\ op.request[1] = "updateOwner" =>
                 /\ owners'[op.request[2]].businessName = Trim(op.request[4])
                 /\ owners'[op.request[2]].businessPhone = Trim(op.request[5])
            /\ op.request[1] = "create" =>
                 \E j \in DOMAIN jobs' \ JobIds :
                   /\ jobs'[j].ownerId = op.request[2]
                   /\ jobs'[j].businessName = owners'[op.request[2]].businessName]_vars

\* C29, its case: the owner's details were changed and the job created for
\* the owner carries the new ones, as the job it had before does
C29_JobsCarryNewDetails ==
  /\ \E i \in Succeeded : results[i].request[1] = "updateOwner"
  /\ \E j \in DOMAIN jobs \ JobIds :
       /\ jobs[j].ownerId = "o1"
       /\ jobs[j].businessName = "Ann Plumbing"
       /\ jobs[j].businessPhone = "555-0199"
  /\ \E j \in JobIds \cap DOMAIN jobs : jobs[j].businessName = "Ann Plumbing"

\* nothing is under way: the requests made have been answered and their
\* increments counted, the session is open and has read the counter as it
\* is, the page has handled the messages sent, no timer is set and no
\* request of loadJobs is out
PageSettled ==
  /\ page.state = "mounted"
  /\ page.fetches = <<>>
  /\ ~page.timer
  /\ sessions[PageSession].state = "open"
  /\ ~sessions[PageSession].polling
  /\ sessions[PageSession].lastSequence = Sequence(ownerSequenceKey(PageOwner))
  /\ page.handled = Len(sessions[PageSession].out)
  /\ \A p \in Procs : writeQueue[p] = <<>>
  /\ \A key \in Keys : incrs[key] = 0

\* C23: manager list convergence: for a page that loads its job list and
\* opens the owner stream, after any finite sequence of mutations,
\* creations and deletions of the owner's jobs, also ones between the first
\* list request and the session's first read of the counter, and with the
\* stream staying open, the list displayed comes to equal the owner's job
\* list of the store.  Once nothing is under way the page can change no
\* more (a poll reads the counter the session knows and sends nothing), so
\* the list displayed then is the store's.
C23_ListConverges ==
  PageSettled => page.jobs = ListResponse(PageOwner, PageClerk).jobs
====
